---- MODULE Spec2Model ----
(***************************************************************************)
(* The ingest pipeline of the echo-cave plugin: the cave.add command       *)
(* (id allocation, row creation) and processNewCave (download, media       *)
(* dedupe, similarity gate, AI analysis, semantic duplicate check, hash    *)
(* and meta commit, status decision, rollback).                            *)
(*                                                                         *)
(* Every awaited external call is one step of a session; it either         *)
(* returns or throws.  A hash is a sequence of hex digits (0..15); a text  *)
(* is represented by the value generateTextSimhash gives for it and a      *)
(* downloaded file by the value generatePHash gives for it (Bad when the   *)
(* decoder rejects the file).                                              *)
(***************************************************************************)
EXTENDS Integers, Sequences, FiniteSets, TLC

\* ------------------------------------------------------------ hash helpers

Min(a, b) == IF a <= b THEN a ELSE b

Max(a, b) == IF a >= b THEN a ELSE b

\* parseInt(char, 16).toString(2).padStart(4, '0')
HexBits(d) == <<(d \div 8) % 2, (d \div 4) % 2, (d \div 2) % 2, d % 2>>

\* the binary expansion of a hex string, 4 bits per digit
binOf(hex) ==
  [i \in 1..(4 * Len(hex)) |-> HexBits(hex[((i - 1) \div 4) + 1])[((i - 1) % 4) + 1]]

onesDropped(hex1, hex2) ==
  LET bin1 == binOf(hex1)
      bin2 == binOf(hex2)
      len  == Min(Len(bin1), Len(bin2))
  IN  Cardinality({i \in 1..len : bin1[i] = 1 /\ bin2[i] = 0})

calculateHammingDistance(hex1, hex2) ==
  LET bin1 == binOf(hex1)
      bin2 == binOf(hex2)
      len  == Min(Len(bin1), Len(bin2))
  IN  Cardinality({i \in 1..len : bin1[i] # bin2[i]})

calculateSimilarityShort(hex1, hex2) ==
  LET distance   == calculateHammingDistance(hex1, hex2)
      hashLength == Min(Len(hex1), Len(hex2)) * 4
  IN  IF hashLength = 0 THEN <<100, 1>>
      ELSE <<100 * (hashLength - distance), hashLength>>

\* The similarity percentage as the exact fraction <<numerator, denominator>>.
calculateSimilarity(hex1, hex2) ==
  LET distance   == calculateHammingDistance(hex1, hex2)
      hashLength == Max(Len(hex1), Len(hex2)) * 4
  IN  IF hashLength = 0 THEN <<100, 1>>
      ELSE <<100 * (hashLength - distance), hashLength>>

\* similarity >= threshold, the threshold in hundredths of a percent
\* (the configuration schema steps thresholds by 0.01)
Meets(sim, threshold) == 100 * sim[1] >= threshold * sim[2]

\* similarity.toFixed(2), in hundredths of a percent (ties round up)
toFixed2(sim) == (200 * sim[1] + sim[2]) \div (2 * sim[2])

\* ------------------------------------------------------------ input sets

Bad == <<16>>

NoText == <<>>

HA  == <<15, 15>>
HA1 == <<15, 14>>
HA2 == <<15, 12>>
HB  == <<0, 0>>
HP  == <<10, 10>>
HP1 == <<10, 11>>
HQ  == <<5, 5>>

Sessions == {"s1", "s2"}

\* what a session submits: the Simhash of its combined text (NoText: no text
\* element) and, per media element in order, the pHash of the file behind it
Contents ==
  { [text |-> NoText, media |-> <<>>],
    [text |-> HA1,    media |-> <<>>],
    [text |-> HB,     media |-> <<>>],
    [text |-> NoText, media |-> <<HP1>>],
    [text |-> HB,     media |-> <<HQ, HQ>>],
    [text |-> HB,     media |-> <<HQ, HP1>>],
    [text |-> HB,     media |-> <<Bad>>] }

\* ratings the LLM answers with
RawRatings == {59, 60}

DefaultApproveThreshold == 60

\* thresholds in hundredths of a percent
Thresholds == {7500, 9500}

NoAnalysis == [present |-> FALSE, rating |-> 0]

NoHit == [kind |-> "none", prior |-> 0, pct |-> 0]

\* ------------------------------------------------------------ state

VARIABLES
  config,       \* the plugin configuration
  cave,         \* table cave: id -> [status]
  cave_hash,    \* table cave_hash: set of [cave, hash, type]
  cave_meta,    \* table cave_meta: set of [cave, rating]
  blob,         \* files saved by fileManager.saveFile: <<cave id, media index>>
  reusableIds,  \* the in-memory pool of reusable ids
  t,            \* per session: position and locals of cave.add / processNewCave
  ready,        \* the ready handler: position and locals
  ai,           \* AIManager: endpoint index and the requests issued
  fx,           \* a helper function under study: its arguments and its result
  batch,        \* an admin batch command: position and counters
  pend          \* the manual review commands in progress: position and locals

vars == <<config, cave, cave_hash, cave_meta, blob, reusableIds, t, ready, ai, fx, batch, pend>>

\* the parts of the state the ingest pipeline does not touch
others == <<ready, ai, fx, batch, pend>>

NoReady == [pc |-> "off"]

NoAI == [pc |-> "off"]

NoFx == [fn |-> "none"]

NoBatch == [pc |-> "off"]

NoPend == [a \in {} |-> [pc |-> "off"]]

dbVars == <<cave, cave_hash, cave_meta>>

Statuses == {"preload", "pending", "active", "delete"}

\* a session about to send cave.add with content c; adm: it is the admin channel;
\* nested: the media elements that lie inside a forward node
Ready(c, adm) ==
  [ pc |-> "idle", id |-> 0, text |-> c.text, media |-> c.media, admin |-> adm,
    nested |-> IF "nested" \in DOMAIN c THEN c.nested ELSE {},
    canon |-> <<>>, files |-> <<>>, textStore |-> {}, imageStore |-> {},
    hit |-> NoHit, gateHit |-> FALSE, analysis |-> NoAnalysis, dups |-> {},
    decision |-> "none", finalStatus |-> "none", written |-> "none", handed |-> FALSE,
    threw |-> {}, faults |-> 0,
    outcome |-> "none",
    dupCreate |-> FALSE, sent |-> <<>> ]

Configs ==
  [ enableSimilarity : BOOLEAN, enableAI : BOOLEAN, enablePend : BOOLEAN,
    enableApprove : BOOLEAN, onAIReviewFail : BOOLEAN, adminValid : BOOLEAN,
    textThreshold : Thresholds, imageThreshold : Thresholds,
    approveThreshold : {DefaultApproveThreshold} ]

\* databases the plugin may start on: rows persisted by earlier runs
SeedEmpty == [ cave |-> [i \in {} |-> [status |-> "active"]], hash |-> {}, meta |-> {} ]

SeedTwo ==
  [ cave |-> [i \in {1, 2} |-> [status |-> "active"]],
    hash |-> { [cave |-> 1, hash |-> HA,  type |-> "text"],
               [cave |-> 2, hash |-> HA2, type |-> "text"],
               [cave |-> 1, hash |-> HP,  type |-> "image"] },
    meta |-> { [cave |-> 1, rating |-> 70] } ]

Seeds == {SeedEmpty, SeedTwo}

Off == [Ready([text |-> NoText, media |-> <<>>], FALSE) EXCEPT !.pc = "off"]

InitWith(cfgs, seeds, running, contents, admins) ==
  /\ config \in cfgs
  /\ \E s \in seeds :
       /\ cave = s.cave
       /\ cave_hash = s.hash
       /\ cave_meta = s.meta
  /\ blob = {}
  /\ reusableIds = {}
  /\ t \in [Sessions -> {Ready(c, adm) : c \in contents, adm \in admins} \cup {Off}]
  /\ \A p \in Sessions : t[p].pc = "off" <=> p \notin running
  \* session.cid holds a ':', so it equals adminChannel only when that does too
  /\ \A p \in Sessions : t[p].admin => config.adminValid
  /\ ready = NoReady /\ ai = NoAI /\ fx = NoFx /\ batch = NoBatch /\ pend = NoPend

Init == InitWith(Configs, Seeds, {"s1"}, Contents, BOOLEAN)

\* two sessions running cave.add concurrently, every feature switched on
ConcConfigs ==
  { c \in Configs : /\ c.enableSimilarity /\ c.enableAI /\ c.enablePend /\ c.enableApprove
                    /\ ~c.onAIReviewFail /\ ~c.adminValid
                    /\ c.textThreshold = 7500 /\ c.imageThreshold = 7500 }

ConcContents ==
  { [text |-> HA1, media |-> <<>>],
    [text |-> HB,  media |-> <<HQ, HQ>>] }

InitConc == InitWith(ConcConfigs, {SeedTwo}, Sessions, ConcContents, {FALSE})

\* ------------------------------------------------------------ helpers

Set(p, r) == t' = [t EXCEPT ![p] = r] /\ UNCHANGED others

\* at most MaxFaults external calls of one submission throw
MaxFaults == 2

CanThrow(p) == t[p].faults < MaxFaults

upsertStatus(c, id, status) ==
  [i \in (DOMAIN c) \cup {id} |-> IF i = id THEN [status |-> status] ELSE c[i]]

CountOf(S) == Cardinality(S)

MaxOf(S) == IF S = {} THEN 0 ELSE CHOOSE m \in S : \A x \in S : x <= m

RECURSIVE FirstGap(_, _)
FirstGap(existing, n) == IF n \in existing THEN FirstGap(existing, n + 1) ELSE n

\* ------------------------------------------------------------ cave.add

\* cave.add up to the pool lookup of getNextCaveId
AddStart(p) ==
  /\ t[p].pc = "idle"
  /\ LET positive == {i \in reusableIds : i > 0}
     IN  IF positive # {}
         THEN \E i \in positive :
                /\ reusableIds' = reusableIds \ {i}
                /\ Set(p, [t[p] EXCEPT !.pc = "elements", !.id = i])
         ELSE IF 0 \in reusableIds
         THEN /\ reusableIds' = reusableIds \ {0}
              /\ Set(p, [t[p] EXCEPT !.pc = "getLast"])
         ELSE /\ UNCHANGED reusableIds
              /\ Set(p, [t[p] EXCEPT !.pc = "getAll"])
  /\ UNCHANGED <<config, dbVars, blob>>

\* getNextCaveId after its database read: with the no-gap marker taken, the
\* largest id + 1 (and the marker is put back); else the smallest free id
\* (and the marker is set when the ids have no gap)
GetNextCaveId(p) ==
  /\ t[p].pc \in {"getLast", "getAll"}
  /\ LET existingIds == DOMAIN cave
     IN  IF t[p].pc = "getLast"
         THEN /\ reusableIds' = reusableIds \cup {0}
              /\ Set(p, [t[p] EXCEPT !.pc = "elements", !.id = MaxOf(existingIds) + 1])
         ELSE /\ reusableIds' = IF Cardinality(existingIds) = MaxOf(existingIds)
                                THEN reusableIds \cup {0} ELSE reusableIds
              /\ Set(p, [t[p] EXCEPT !.pc = "elements", !.id = FirstGap(existingIds, 1)])
  /\ UNCHANGED <<config, dbVars, blob>>

\* processMessageElements, the empty check and database.create; on success the
\* confirmation is sent and processNewCave starts
Create(p) ==
  /\ t[p].pc = "elements"
  /\ UNCHANGED <<config, cave_hash, cave_meta, blob, reusableIds>>
  /\ IF t[p].text = NoText /\ t[p].media = <<>>
     THEN /\ Set(p, [t[p] EXCEPT !.pc = "done", !.outcome = "noContent"])
          /\ UNCHANGED cave
     ELSE IF t[p].id \in DOMAIN cave
     THEN /\ Set(p, [t[p] EXCEPT !.pc = "done", !.outcome = "createFailed", !.dupCreate = TRUE])
          /\ UNCHANGED cave
     ELSE \/ /\ cave' = upsertStatus(cave, t[p].id, "preload")
             /\ Set(p, [t[p] EXCEPT !.pc = "download",
                                    !.files = [i \in 1..Len(t[p].media) |-> i],
                                    !.sent = Append(@, [kind |-> "accepted", id |-> t[p].id])])
          \/ /\ CanThrow(p)
             /\ Set(p, [t[p] EXCEPT !.pc = "done", !.outcome = "createFailed", !.faults = @ + 1])
             /\ UNCHANGED cave

\* ------------------------------------------------------------ processNewCave

\* an exception that reaches the outer catch block
Caught(r, call) == [r EXCEPT !.pc = "catchTomb", !.threw = @ \cup {call}]

\* the same for a failed external call, which counts against the fault budget
Catch(r, call) == [Caught(r, call) EXCEPT !.faults = @ + 1]

\* an exception inside the similarity comparison: logged, the pipeline goes on
SimCatch(r, call) == [r EXCEPT !.pc = "save", !.threw = @ \cup {call}, !.faults = @ + 1]

Download(p) ==
  /\ t[p].pc = "download"
  /\ UNCHANGED <<config, dbVars, blob, reusableIds>>
  /\ IF t[p].media = <<>>
     THEN Set(p, [t[p] EXCEPT !.pc = "dedupe"])
     ELSE \/ Set(p, [t[p] EXCEPT !.pc = "dedupe"])
          \/ /\ CanThrow(p)
             /\ Set(p, Catch(t[p], "http.get"))

\* the first download with the same pHash
canonicalOf(media, i) == CHOOSE j \in 1..i : media[j] = media[i] /\ \A k \in 1..(j - 1) : media[k] # media[i]

RECURSIVE canonicalFiles(_, _)
canonicalFiles(media, i) ==
  IF i > Len(media) THEN <<>>
  ELSE IF canonicalOf(media, i) = i THEN <<i>> \o canonicalFiles(media, i + 1)
  ELSE canonicalFiles(media, i + 1)

\* pHash every download, keep one file per pHash and remap the elements of
\* the top level
Dedupe(p) ==
  /\ t[p].pc = "dedupe"
  /\ UNCHANGED <<config, dbVars, blob, reusableIds>>
  /\ LET media == t[p].media
     IN  IF config.enableSimilarity
         THEN IF \E i \in 1..Len(media) : media[i] = Bad
              THEN Set(p, Caught(t[p], "generatePHash"))
              ELSE Set(p, [t[p] EXCEPT !.pc = "gateText",
                                       !.canon = canonicalFiles(media, 1),
                                       !.files = [i \in 1..Len(media) |->
                                                    IF i \in t[p].nested THEN i
                                                    ELSE canonicalOf(media, i)]])
         ELSE Set(p, [t[p] EXCEPT !.pc = "gateText",
                                  !.canon = [i \in 1..Len(media) |-> i]])

\* the orders database.get may return a set of rows in
Orders(S) == {o \in [1..Cardinality(S) -> S] : \A i, j \in 1..Cardinality(S) : i # j => o[i] # o[j]}

noCrossing(order, hash, threshold) == 0

\* the first row of the scan whose similarity to the new hash meets the threshold
firstCrossing(order, hash, threshold) ==
  LET crossing == {i \in 1..Len(order) : Meets(calculateSimilarity(hash, order[i].hash), threshold)}
  IN  IF crossing = {} THEN 0 ELSE CHOOSE i \in crossing : \A j \in crossing : i <= j

rowsOfType(type) == {h \in cave_hash : h.type = type}

GateText(p) ==
  /\ t[p].pc = "gateText"
  /\ UNCHANGED <<config, dbVars, blob, reusableIds>>
  /\ IF ~config.enableSimilarity
     THEN Set(p, [t[p] EXCEPT !.pc = "save"])
     ELSE IF t[p].text = NoText
     THEN Set(p, [t[p] EXCEPT !.pc = "gateImage"])
     ELSE \/ /\ CanThrow(p)
             /\ Set(p, SimCatch(t[p], "get cave_hash"))
          \/ \E existingTextHashes \in Orders(rowsOfType("text")) :
               LET i == firstCrossing(existingTextHashes, t[p].text, config.textThreshold)
               IN  IF i # 0
                   THEN Set(p, [t[p] EXCEPT
                          !.pc = "simSend", !.gateHit = TRUE,
                          !.hit = [kind |-> "text", prior |-> existingTextHashes[i].cave,
                                   pct |-> toFixed2(calculateSimilarity(t[p].text, existingTextHashes[i].hash))]])
                   ELSE Set(p, [t[p] EXCEPT !.pc = "gateImage", !.textStore = {t[p].text}])

\* the first processed image, in order, that has a crossing row: <<image, row>>
RECURSIVE firstImageHit(_, _, _, _)
firstImageHit(hashes, k, order, threshold) ==
  IF k > Len(hashes) THEN <<0, 0>>
  ELSE LET i == firstCrossing(order, hashes[k], threshold)
       IN  IF i # 0 THEN <<k, i>> ELSE firstImageHit(hashes, k + 1, order, threshold)

GateImage(p) ==
  /\ t[p].pc = "gateImage"
  /\ UNCHANGED <<config, dbVars, blob, reusableIds>>
  /\ LET hashes == [k \in 1..Len(t[p].canon) |-> t[p].media[t[p].canon[k]]]
     IN  IF hashes = <<>>
         THEN Set(p, [t[p] EXCEPT !.pc = "save"])
         ELSE \/ /\ CanThrow(p)
                 /\ Set(p, SimCatch(t[p], "get cave_hash"))
              \/ \E dbImageHashes \in Orders(rowsOfType("image")) :
                   LET h == firstImageHit(hashes, 1, dbImageHashes, config.imageThreshold)
                   IN  IF h[1] # 0
                       THEN Set(p, [t[p] EXCEPT
                              !.pc = "simSend", !.gateHit = TRUE,
                              !.hit = [kind |-> "image", prior |-> dbImageHashes[h[2]].cave,
                                       pct |-> toFixed2(calculateSimilarity(hashes[h[1]], dbImageHashes[h[2]].hash))]])
                       ELSE Set(p, [t[p] EXCEPT !.pc = "save",
                                                !.imageStore = {hashes[k] : k \in 1..Len(hashes)}])

\* session.send of the similarity rejection
SimSend(p) ==
  /\ t[p].pc = "simSend"
  /\ UNCHANGED <<config, dbVars, blob, reusableIds>>
  /\ LET r == [t[p] EXCEPT !.sent = Append(@, [kind |-> "similar", what |-> t[p].hit.kind,
                                               prior |-> t[p].hit.prior, pct |-> t[p].hit.pct])]
     IN  \/ Set(p, [r EXCEPT !.pc = "simTomb"])
         \/ /\ CanThrow(p)
            /\ Set(p, SimCatch(r, "session.send"))

tombstoneSkipped(c, id) == c

tombstone(c, id) == upsertStatus(c, id, "delete")

\* the tombstone write of the similarity rejection, then return
SimTomb(p) ==
  /\ t[p].pc = "simTomb"
  /\ UNCHANGED <<config, cave_hash, cave_meta, blob, reusableIds>>
  /\ \/ /\ cave' = tombstone(cave, t[p].id)
        /\ Set(p, [t[p] EXCEPT !.pc = "done", !.outcome = "simReject"])
     \/ /\ UNCHANGED cave
        /\ CanThrow(p)
        /\ Set(p, SimCatch(t[p], "upsert cave"))

\* fileManager.saveFile for every canonical file; when one save throws any
\* proper subset of the files may have been written
SaveSkipped(p) ==
  /\ t[p].pc = "save"
  /\ UNCHANGED <<config, dbVars, blob, reusableIds>>
  /\ Set(p, [t[p] EXCEPT !.pc = "analyze"])

\* Promise.all of fileManager.saveFile over canonicalFilesToSave
Save(p) ==
  /\ t[p].pc = "save"
  /\ UNCHANGED <<config, dbVars, reusableIds>>
  /\ LET names == {<<t[p].id, t[p].canon[k]>> : k \in 1..Len(t[p].canon)}
     IN  IF names = {}
         THEN /\ Set(p, [t[p] EXCEPT !.pc = "analyze"])
              /\ UNCHANGED blob
         ELSE \/ /\ blob' = blob \cup names
                 /\ Set(p, [t[p] EXCEPT !.pc = "analyze"])
              \/ /\ \E part \in (SUBSET names) \ {names} : blob' = blob \cup part
                 /\ CanThrow(p)
                 /\ Set(p, Catch(t[p], "saveFile"))

\* Math.max(0, Math.min(100, rating))
clampRating(rating) == Max(0, Min(100, rating))

\* aiManager.analyze: the LLM answers with a rating, or the request throws or
\* is unparseable, which analyze catches and reports as no analysis
Analyze(p) ==
  /\ t[p].pc = "analyze"
  /\ UNCHANGED <<config, dbVars, blob, reusableIds>>
  /\ IF ~config.enableAI
     THEN Set(p, [t[p] EXCEPT !.pc = "hashUpsert"])
     ELSE \/ \E rating \in RawRatings :
               Set(p, [t[p] EXCEPT !.pc = "metaUpsert",
                                   !.analysis = [present |-> TRUE, rating |-> clampRating(rating)]])
          \/ /\ CanThrow(p)
             /\ Set(p, [t[p] EXCEPT !.pc = "hashUpsert", !.threw = @ \cup {"requestAI"}, !.faults = @ + 1])

upsertMeta(meta, row) == {m \in meta : m.cave # row.cave} \cup {row}

MetaUpsert(p) ==
  /\ t[p].pc = "metaUpsert"
  /\ UNCHANGED <<config, cave, cave_hash, blob, reusableIds>>
  /\ \/ /\ cave_meta' = upsertMeta(cave_meta, [cave |-> t[p].id, rating |-> t[p].analysis.rating])
        /\ Set(p, [t[p] EXCEPT !.pc = "checkDup"])
     \/ /\ UNCHANGED cave_meta
        /\ CanThrow(p)
        /\ Set(p, Catch(t[p], "upsert cave_meta"))

\* the ids checkForDuplicates may return, limited here to caves that have a
\* meta row; none when anything in it fails
checkForDuplicates(meta) == SUBSET {m.cave : m \in meta}

CheckDup(p) ==
  /\ t[p].pc = "checkDup"
  /\ UNCHANGED <<config, dbVars, blob, reusableIds>>
  /\ \E duplicateIds \in checkForDuplicates(cave_meta) :
       IF duplicateIds # {}
       THEN Set(p, [t[p] EXCEPT !.pc = "dupSend", !.dups = duplicateIds])
       ELSE Set(p, [t[p] EXCEPT !.pc = "hashUpsert"])

DupSend(p) ==
  /\ t[p].pc = "dupSend"
  /\ UNCHANGED <<config, dbVars, blob, reusableIds>>
  /\ LET r == [t[p] EXCEPT !.sent = Append(@, [kind |-> "duplicate", ids |-> t[p].dups])]
     IN  \/ Set(p, [r EXCEPT !.pc = "dupTomb"])
         \/ /\ CanThrow(p)
            /\ Set(p, Catch(r, "session.send"))

DupTomb(p) ==
  /\ t[p].pc = "dupTomb"
  /\ UNCHANGED <<config, cave_hash, cave_meta, blob, reusableIds>>
  /\ \/ /\ cave' = tombstone(cave, t[p].id)
        /\ Set(p, [t[p] EXCEPT !.pc = "done", !.outcome = "dupReject"])
     \/ /\ UNCHANGED cave
        /\ CanThrow(p)
        /\ Set(p, Catch(t[p], "upsert cave"))

needsManualReview(admin) == config.enablePend /\ ~admin

ratingPassesStrict(rating, threshold) == rating > threshold

ratingPasses(rating, threshold) == rating >= threshold

decideStatusNoFallThrough(admin, analysis) ==
  IF needsManualReview(admin)
  THEN IF config.enableAI /\ config.enableApprove /\ analysis.present
       THEN IF ratingPasses(analysis.rating, config.approveThreshold) THEN "active"
            ELSE "reject"
       ELSE "pending"
  ELSE "active"

decideStatusNoReject(admin, analysis) ==
  IF needsManualReview(admin)
  THEN IF config.enableAI /\ config.enableApprove /\ analysis.present
       THEN IF ratingPasses(analysis.rating, config.approveThreshold) THEN "active"
            ELSE "pending"
       ELSE "pending"
  ELSE "active"

\* the status decision: "active", "pending" or "reject"
decideStatus(admin, analysis) ==
  IF needsManualReview(admin)
  THEN IF config.enableAI /\ config.enableApprove /\ analysis.present
       THEN IF ratingPasses(analysis.rating, config.approveThreshold) THEN "active"
            ELSE IF config.onAIReviewFail THEN "pending"
            ELSE "reject"
       ELSE "pending"
  ELSE "active"

Decided(r) ==
  LET d == decideStatus(r.admin, r.analysis)
  IN  IF d = "reject" THEN [r EXCEPT !.pc = "aiSend", !.decision = d]
      ELSE [r EXCEPT !.pc = "final", !.decision = d, !.finalStatus = d]

hashRows(r) ==
  {[cave |-> r.id, hash |-> h, type |-> "text"] : h \in r.textStore}
    \cup {[cave |-> r.id, hash |-> h, type |-> "image"] : h \in r.imageStore}

\* the cave_hash upsert, then the status decision up to its next awaited call
HashUpsert(p) ==
  /\ t[p].pc = "hashUpsert"
  /\ UNCHANGED <<config, cave, cave_meta, blob, reusableIds>>
  /\ LET allHashesToInsert == hashRows(t[p])
     IN  IF config.enableSimilarity /\ allHashesToInsert # {}
         THEN \/ /\ cave_hash' = cave_hash \cup allHashesToInsert
                 /\ Set(p, Decided(t[p]))
              \/ /\ UNCHANGED cave_hash
                 /\ CanThrow(p)
                 /\ Set(p, Catch(t[p], "upsert cave_hash"))
         ELSE /\ UNCHANGED cave_hash
              /\ Set(p, Decided(t[p]))

AiSend(p) ==
  /\ t[p].pc = "aiSend"
  /\ UNCHANGED <<config, dbVars, blob, reusableIds>>
  /\ LET r == [t[p] EXCEPT !.sent = Append(@, [kind |-> "aiFailed", rating |-> t[p].analysis.rating])]
     IN  \/ Set(p, [r EXCEPT !.pc = "aiTomb"])
         \/ /\ CanThrow(p)
            /\ Set(p, Catch(r, "session.send"))

AiTomb(p) ==
  /\ t[p].pc = "aiTomb"
  /\ UNCHANGED <<config, cave_hash, cave_meta, blob, reusableIds>>
  /\ \/ /\ cave' = tombstone(cave, t[p].id)
        /\ Set(p, [t[p] EXCEPT !.pc = "done", !.outcome = "aiReject"])
     \/ /\ UNCHANGED cave
        /\ CanThrow(p)
        /\ Set(p, Catch(t[p], "upsert cave"))

\* the final upsert of the row; a pending submission goes to sendForPend
Final(p) ==
  /\ t[p].pc = "final"
  /\ UNCHANGED <<config, cave_hash, cave_meta, blob, reusableIds>>
  /\ \/ /\ cave' = upsertStatus(cave, t[p].id, t[p].finalStatus)
        /\ Set(p, [t[p] EXCEPT !.pc = IF t[p].finalStatus = "pending" /\ config.enablePend
                                      THEN "sendForPend" ELSE "done",
                               !.handed = (t[p].finalStatus = "pending" /\ config.enablePend),
                               !.written = t[p].finalStatus, !.outcome = "ok"])
     \/ /\ UNCHANGED cave
        /\ CanThrow(p)
        /\ Set(p, Catch(t[p], "upsert cave"))

\* PendManager.sendForPend: without a valid admin channel the cave is approved
\* at once, else it is broadcast to the admin channel (a failed broadcast is
\* logged and changes nothing)
SendForPend(p) ==
  /\ t[p].pc = "sendForPend"
  /\ UNCHANGED <<config, cave_hash, cave_meta, blob, reusableIds>>
  /\ IF ~config.adminValid
     THEN \/ /\ cave' = upsertStatus(cave, t[p].id, "active")
             /\ Set(p, [t[p] EXCEPT !.pc = "done"])
          \/ /\ UNCHANGED cave
             /\ CanThrow(p)
             /\ Set(p, [t[p] EXCEPT !.pc = "done", !.faults = @ + 1])
     ELSE /\ UNCHANGED cave
          /\ Set(p, [t[p] EXCEPT !.pc = "done"])

\* the catch block: tombstone the row; when that write throws the run ends there
CatchTomb(p) ==
  /\ t[p].pc = "catchTomb"
  /\ UNCHANGED <<config, cave_hash, cave_meta, blob, reusableIds>>
  /\ \/ /\ cave' = tombstone(cave, t[p].id)
        /\ Set(p, [t[p] EXCEPT !.pc = "catchSend"])
     \/ /\ UNCHANGED cave
        /\ CanThrow(p)
        /\ Set(p, [t[p] EXCEPT !.pc = "done", !.outcome = "error", !.threw = @ \cup {"rollback"},
                               !.faults = @ + 1])

\* the catch block: tell the user; the run ends whether the send returns or throws
CatchSend(p) ==
  /\ t[p].pc = "catchSend"
  /\ UNCHANGED <<config, dbVars, blob, reusableIds>>
  /\ LET r == [t[p] EXCEPT !.pc = "done", !.outcome = "error", !.sent = Append(@, [kind |-> "failed"])]
     IN  \/ Set(p, r)
         \/ /\ CanThrow(p)
            /\ Set(p, [r EXCEPT !.threw = @ \cup {"session.send"}, !.faults = @ + 1])

Next ==
  \E p \in Sessions :
    \/ AddStart(p) \/ GetNextCaveId(p) \/ Create(p)
    \/ Download(p) \/ Dedupe(p) \/ GateText(p) \/ GateImage(p) \/ SimSend(p) \/ SimTomb(p)
    \/ Save(p) \/ Analyze(p) \/ MetaUpsert(p) \/ CheckDup(p) \/ DupSend(p) \/ DupTomb(p)
    \/ HashUpsert(p) \/ AiSend(p) \/ AiTomb(p) \/ Final(p) \/ SendForPend(p)
    \/ CatchTomb(p) \/ CatchSend(p)

Spec == Init /\ [][Next]_vars

SpecConc == InitConc /\ [][Next]_vars

\* ------------------------------------------------------------ ready handler

\* rows the cave table may hold at startup
MaxRows == 3

StartupTables == UNION {[D -> [status : Statuses]] : D \in SUBSET (1..MaxRows)}

ingestIdle ==
  /\ config \in ConcConfigs
  /\ cave_hash = {} /\ cave_meta = {} /\ blob = {}
  /\ reusableIds = {}
  /\ t = [p \in Sessions |-> Off]

InitReady ==
  /\ ingestIdle
  /\ cave \in StartupTables
  /\ ready = [pc |-> "get", startup |-> cave, staleCaves |-> {}, swept |-> FALSE]
  /\ ai = NoAI /\ fx = NoFx /\ batch = NoBatch /\ pend = NoPend

markStaleNone(c, ids) == c

\* upsert of status delete for the stale rows
markStale(c, ids) == [i \in DOMAIN c |-> IF i \in ids THEN [status |-> "delete"] ELSE c[i]]

\* the ID-recycling sweep: harvests the delete rows into the reusable-id pool
cleanupPendingDeletions(c, pool) == pool \cup {i \in DOMAIN c : c[i].status = "delete"}

\* database.get of the preload rows; nothing more when there is none
ReadyGet ==
  /\ ready.pc = "get"
  /\ UNCHANGED <<config, dbVars, blob, reusableIds, t, ai, fx, batch, pend>>
  /\ \/ LET staleCaves == {i \in DOMAIN cave : cave[i].status = "preload"}
        IN  ready' = [ready EXCEPT !.staleCaves = staleCaves,
                                   !.pc = IF staleCaves = {} THEN "done" ELSE "upsert"]
     \/ ready' = [ready EXCEPT !.pc = "failed"]

ReadyUpsert ==
  /\ ready.pc = "upsert"
  /\ UNCHANGED <<config, cave_hash, cave_meta, blob, reusableIds, t, ai, fx, batch, pend>>
  /\ \/ /\ cave' = markStale(cave, ready.staleCaves)
        /\ ready' = [ready EXCEPT !.pc = "sweep"]
     \/ /\ UNCHANGED cave
        /\ ready' = [ready EXCEPT !.pc = "failed"]

ReadySweep ==
  /\ ready.pc = "sweep"
  /\ UNCHANGED <<config, dbVars, blob, t, ai, fx, batch, pend>>
  /\ \/ /\ reusableIds' = cleanupPendingDeletions(cave, reusableIds)
        /\ ready' = [ready EXCEPT !.pc = "done", !.swept = TRUE]
     \/ /\ UNCHANGED reusableIds
        /\ ready' = [ready EXCEPT !.pc = "failed"]

NextReady == ReadyGet \/ ReadyUpsert \/ ReadySweep

SpecReady == InitReady /\ [][NextReady]_vars

\* ------------------------------------------------------------ AIManager.requestAI

\* configured endpoints, requests issued, callers that may overlap, and the
\* clock, which counts periods of 30 s
MaxEndpoints == 3

MaxRequests == 4

MaxTime == 1

Callers == {"c1", "c2"}

InitAI ==
  /\ ingestIdle
  /\ cave \in {SeedEmpty.cave}
  /\ \E n \in 1..MaxEndpoints :
       ai = [pc |-> "on", endpoints |-> n, endpointIndex |-> 0, now |-> 0, requests |-> <<>>]
  /\ ready = NoReady /\ fx = NoFx /\ batch = NoBatch /\ pend = NoPend

quiet == UNCHANGED <<config, dbVars, blob, reusableIds, t, ready, fx, batch, pend>>

inFlight(c) == {k \in 1..Len(ai.requests) : ai.requests[k].caller = c /\ ai.requests[k].state = "flight"}

nextIndexNoWrap(index, n) == index + 1

\* (this.endpointIndex + 1) % this.config.endpoints.length
nextIndex(index, n) == (index + 1) % n

\* requestAI up to its http.post: take the endpoint at the index, advance the index
RequestAI(c) ==
  /\ ai.pc = "on"
  /\ inFlight(c) = {}
  /\ Len(ai.requests) < MaxRequests
  /\ ai' = [ai EXCEPT
              !.endpointIndex = nextIndex(ai.endpointIndex, ai.endpoints),
              !.requests = Append(@, [caller |-> c, endpoint |-> ai.endpointIndex,
                                      at |-> ai.now, state |-> "flight", end |-> 0])]
  /\ quiet

\* the response parses: requestAI returns
Respond(c) ==
  /\ \E k \in inFlight(c) :
       ai' = [ai EXCEPT !.requests[k].state = "ok", !.requests[k].end = ai.now]
  /\ quiet

\* http.post throws, or the response is empty or unparseable: requestAI throws
Fail(c) ==
  /\ \E k \in inFlight(c) :
       ai' = [ai EXCEPT !.requests[k].state = "threw", !.requests[k].end = ai.now]
  /\ quiet

Tick ==
  /\ ai.pc = "on"
  /\ ai.now < MaxTime
  /\ ai' = [ai EXCEPT !.now = @ + 1]
  /\ quiet

NextAI == Tick \/ \E c \in Callers : RequestAI(c) \/ Respond(c) \/ Fail(c)

SpecAI == InitAI /\ [][NextAI]_vars

\* ------------------------------------------------------------ sanitizeImageBuffer

\* a buffer is a sequence of bytes
PNG_SIGNATURE == <<137, 80, 78, 71, 13, 10, 26, 10>>

JPEG_SIGNATURE == <<255, 216>>

GIF_SIGNATURE == <<71, 73, 70>>

IEND_CHUNK == <<73, 69, 78, 68>>

EOI_MARKER == <<255, 217>>

GIF_TERMINATOR == <<59>>

\* imageBuffer.slice(0, sig.length).equals(sig)
startsWith(buffer, sig) == Len(buffer) >= Len(sig) /\ SubSeq(buffer, 1, Len(sig)) = sig

\* Buffer.lastIndexOf: the 0-based offset of the last occurrence, or -1
lastIndexOf(buffer, pattern) ==
  LET at == {i \in 0..(Len(buffer) - Len(pattern)) : SubSeq(buffer, i + 1, i + Len(pattern)) = pattern}
  IN  IF at = {} THEN -1 ELSE CHOOSE i \in at : \A j \in at : j <= i

\* cut the buffer after the last occurrence of the terminator; trailer is the
\* number of bytes from the start of the pattern to the end of the image
cutAfterLast(buffer, pattern, trailer) ==
  LET index == lastIndexOf(buffer, pattern)
  IN  IF index # -1 /\ Len(buffer) > index + trailer
      THEN SubSeq(buffer, 1, index + trailer)
      ELSE buffer

sanitizeImageBuffer(imageBuffer) ==
  IF startsWith(imageBuffer, PNG_SIGNATURE) THEN cutAfterLast(imageBuffer, IEND_CHUNK, 8)
  ELSE IF startsWith(imageBuffer, JPEG_SIGNATURE) THEN cutAfterLast(imageBuffer, EOI_MARKER, 2)
  ELSE IF startsWith(imageBuffer, GIF_SIGNATURE) THEN cutAfterLast(imageBuffer, GIF_TERMINATOR, 1)
  ELSE imageBuffer

\* sequences over S of length at most n
SeqsUpTo(S, n) == UNION {[1..k -> S] : k \in 0..n}

\* images that end at their logical terminator, by family
Images ==
  [ png   |-> {PNG_SIGNATURE \o body \o <<0, 0, 0, 0>> \o IEND_CHUNK \o <<174, 66, 96, 130>> :
                 body \in {<<>>, <<0>>}},
    jpeg  |-> {JPEG_SIGNATURE \o body \o EOI_MARKER : body \in {<<>>, <<0>>}},
    gif   |-> {GIF_SIGNATURE \o body \o GIF_TERMINATOR : body \in {<<>>, <<59>>}},
    other |-> {<<66, 77>> \o body : body \in {<<>>, <<59>>}} ]

\* bytes appended after the terminator
MaxPad == 2

PadBytes == {0, 59, 217, 255}

InitSanitize ==
  /\ ingestIdle
  /\ cave \in {SeedEmpty.cave}
  /\ \E family \in DOMAIN Images : \E b \in Images[family] : \E p \in SeqsUpTo(PadBytes, MaxPad) :
       fx = [fn |-> "sanitize", family |-> family, b |-> b, p |-> p, out |-> <<>>, done |-> FALSE]
  /\ ready = NoReady /\ ai = NoAI /\ batch = NoBatch /\ pend = NoPend

Sanitize ==
  /\ fx.fn = "sanitize" /\ ~fx.done
  /\ fx' = [fx EXCEPT !.out = sanitizeImageBuffer(fx.b \o fx.p), !.done = TRUE]
  /\ UNCHANGED <<config, dbVars, blob, reusableIds, t, ready, ai, batch, pend>>

SpecSanitize == InitSanitize /\ [][Sanitize]_vars

\* ------------------------------------------------------------ generateTextSimhash

\* a text is a sequence of characters
Chars == {"a", "A", "b", " "}

MaxText == 3

\* String.toLowerCase, per character
toLowerCase(ch) == IF ch = "A" THEN "a" ELSE IF ch = "B" THEN "b" ELSE ch

\* the characters /\s/ matches
isSpace(ch) == ch \in {" "}

\* text.toLowerCase().replace(/\s+/g, '')
cleanText(text) ==
  LET lower == [k \in 1..Len(text) |-> toLowerCase(text[k])]
      keep(ch) == ~isSpace(ch)
  IN  SelectSeq(lower, keep)

allTokens(tokens) == tokens

\* Array.from(new Set(tokens)): the first occurrence of every token, in order
distinctTokens(tokens) ==
  LET first(k) == \A j \in 1..(k - 1) : tokens[j] # tokens[k]
      F[k \in 0..Len(tokens)] ==
        IF k = 0 THEN <<>> ELSE IF first(k) THEN Append(F[k - 1], tokens[k]) ELSE F[k - 1]
  IN  F[Len(tokens)]

charCode(token) == IF token = "a" THEN 97 ELSE IF token = "b" THEN 98 ELSE 32

\* bit i (0..63) of the MD5 digest of the token, (hash[i / 8] >> (i % 8)) & 1;
\* the digest is represented by a fixed function of the token
md5Bit(token, i) == ((charCode(token) * (2 * i + 7)) \div 8) % 2

\* the 64 sums of +1 / -1 over the tokens
vectorOf(tokenArray) ==
  [i \in 0..63 |->
     LET ones == Cardinality({k \in 1..Len(tokenArray) : md5Bit(tokenArray[k], i) = 1})
     IN  2 * ones - Len(tokenArray)]

\* BigInt('0b' + binaryHash).toString(16).padStart(16, '0') as 16 hex digits
hexOfVector(vector) ==
  LET bit(i) == IF vector[i] > 0 THEN 1 ELSE 0
  IN  [d \in 1..16 |-> 8 * bit(4 * d - 4) + 4 * bit(4 * d - 3) + 2 * bit(4 * d - 2) + bit(4 * d - 1)]

generateTextSimhash(text) ==
  LET clean == cleanText(text)
  IN  IF clean = <<>> THEN <<>>
      ELSE hexOfVector(vectorOf(distinctTokens(clean)))

InitSimhash ==
  /\ ingestIdle
  /\ cave \in {SeedEmpty.cave}
  /\ \E s1 \in SeqsUpTo(Chars, MaxText) : \E s2 \in SeqsUpTo(Chars, MaxText) :
       fx = [fn |-> "simhash", s1 |-> s1, s2 |-> s2, out1 |-> <<>>, out2 |-> <<>>, done |-> FALSE]
  /\ ready = NoReady /\ ai = NoAI /\ batch = NoBatch /\ pend = NoPend

Simhash ==
  /\ fx.fn = "simhash" /\ ~fx.done
  /\ fx' = [fx EXCEPT !.out1 = generateTextSimhash(fx.s1), !.out2 = generateTextSimhash(fx.s2),
                       !.done = TRUE]
  /\ UNCHANGED <<config, dbVars, blob, reusableIds, t, ready, ai, batch, pend>>

SpecSimhash == InitSimhash /\ [][Simhash]_vars

\* ------------------------------------------------------------ clusterItemsFromPairs

ItemIds == 1..4

MaxPairs == 3

\* parent.set(i, v) on the map parent
mapSet(parent, i, v) == [x \in (DOMAIN parent) \cup {i} |-> IF x = i THEN v ELSE parent[x]]

\* find with path compression: <<root, the map afterwards>>
RECURSIVE find(_, _)
find(parent, i) ==
  IF i \notin DOMAIN parent THEN <<i, mapSet(parent, i, i)>>
  ELSE IF parent[i] = i THEN <<i, parent>>
  ELSE LET r == find(parent, parent[i])
       IN  <<r[1], mapSet(r[2], i, r[1])>>

unionChild(parent, i, j) ==
  LET rootI == find(parent, i)
      rootJ == find(rootI[2], j)
  IN  IF rootI[1] # rootJ[1] THEN mapSet(rootJ[2], i, rootJ[1]) ELSE rootJ[2]

\* union: the root of i is hung under the root of j
union(parent, i, j) ==
  LET rootI == find(parent, i)
      rootJ == find(rootI[2], j)
  IN  IF rootI[1] # rootJ[1] THEN mapSet(rootJ[2], rootI[1], rootJ[1]) ELSE rootJ[2]

\* the map after the loop over the pairs
parentAfter(pairs) ==
  LET F[k \in 0..Len(pairs)] ==
        IF k = 0 THEN [x \in {} |-> x] ELSE union(F[k - 1], pairs[k][1], pairs[k][2])
  IN  F[Len(pairs)]

\* allIds in the iteration order of the Set: first insertion first
allIdsOf(pairs) ==
  LET flat == [k \in 1..(2 * Len(pairs)) |-> pairs[(k + 1) \div 2][2 - (k % 2)]]
      first(k) == \A j \in 1..(k - 1) : flat[j] # flat[k]
      F[k \in 0..Len(flat)] ==
        IF k = 0 THEN <<>> ELSE IF first(k) THEN Append(F[k - 1], flat[k]) ELSE F[k - 1]
  IN  F[Len(flat)]

\* clusterMap as the sequence of its entries [root, ids], in insertion order
clusterMapOf(parent, allIds) ==
  LET F[k \in 0..Len(allIds)] ==
        IF k = 0 THEN <<parent, <<>>>>
        ELSE LET r    == find(F[k - 1][1], allIds[k])
                 m    == F[k - 1][2]
                 at   == {e \in 1..Len(m) : m[e].root = r[1]}
             IN  IF at = {}
                 THEN <<r[2], Append(m, [root |-> r[1], ids |-> <<allIds[k]>>])>>
                 ELSE <<r[2], [e \in 1..Len(m) |->
                                 IF e \in at THEN [m[e] EXCEPT !.ids = Append(@, allIds[k])] ELSE m[e]]>>
  IN  F[Len(allIds)][2]

clusterItemsFromPairs(pairs) ==
  LET allIds == allIdsOf(pairs)
      big(e) == Len(e.ids) > 1
      kept   == SelectSeq(clusterMapOf(parentAfter(pairs), allIds), big)
  IN  IF allIds = <<>> THEN <<>> ELSE [e \in 1..Len(kept) |-> kept[e].ids]

InitCluster ==
  /\ ingestIdle
  /\ cave \in {SeedEmpty.cave}
  /\ \E pairs \in SeqsUpTo(ItemIds \X ItemIds, MaxPairs) :
       fx = [fn |-> "cluster", pairs |-> pairs, out |-> <<>>, done |-> FALSE]
  /\ ready = NoReady /\ ai = NoAI /\ batch = NoBatch /\ pend = NoPend

Cluster ==
  /\ fx.fn = "cluster" /\ ~fx.done
  /\ fx' = [fx EXCEPT !.out = clusterItemsFromPairs(fx.pairs), !.done = TRUE]
  /\ UNCHANGED <<config, dbVars, blob, reusableIds, t, ready, ai, batch, pend>>

SpecCluster == InitCluster /\ [][Cluster]_vars

\* ------------------------------------------------------------ generateFromLSH

BucketKeys == {"k1", "k2"}

MaxItems == 3

\* the key lists an item may have
KeyLists == {<<"k1">>, <<"k2">>, <<"k1", "k1">>, <<"k1", "k2">>}

\* what getBucketInfo returns for an item
BucketInfos == [id : 1..3, keys : KeyLists]

\* buckets.get(key): the ids pushed under the key, items in order, an item's
\* keys in order
bucketOf(items, key) ==
  LET pushes(item) == [k \in 1..Cardinality({j \in 1..Len(item.keys) : item.keys[j] = key}) |-> item.id]
      skipped(item) == item.id = 0 \/ item.keys = <<>>
      F[n \in 0..Len(items)] ==
        IF n = 0 THEN <<>>
        ELSE IF skipped(items[n]) THEN F[n - 1]
        ELSE F[n - 1] \o pushes(items[n])
  IN  F[Len(items)]

keepRepeats(ids) == ids

\* [...new Set(ids)].sort((a, b) => a - b)
uniqueSorted(ids) ==
  LET S == {ids[k] : k \in 1..Len(ids)}
      F[n \in 0..Cardinality(S)] ==
        IF n = 0 THEN <<>>
        ELSE Append(F[n - 1], CHOOSE x \in S : Cardinality({y \in S : y < x}) = n - 1)
  IN  F[Cardinality(S)]

\* the pair keys of one bucket; the key `${a}-${b}` is represented by <<a, b>>
pairsOfBucket(ids) ==
  IF Len(ids) < 2 THEN {}
  ELSE LET uniqueIds == uniqueSorted(ids)
       IN  IF Len(uniqueIds) < 2 THEN {}
           ELSE {<<uniqueIds[ij[1]], uniqueIds[ij[2]]>> :
                   ij \in {x \in (1..Len(uniqueIds)) \X (1..Len(uniqueIds)) : x[1] < x[2]}}

generateFromLSH(items) == UNION {pairsOfBucket(bucketOf(items, key)) : key \in BucketKeys}

InitLSH ==
  /\ ingestIdle
  /\ cave \in {SeedEmpty.cave}
  /\ \E items \in SeqsUpTo(BucketInfos, MaxItems) :
       fx = [fn |-> "lsh", items |-> items, out |-> {}, done |-> FALSE]
  /\ ready = NoReady /\ ai = NoAI /\ batch = NoBatch /\ pend = NoPend

LSH ==
  /\ fx.fn = "lsh" /\ ~fx.done
  /\ fx' = [fx EXCEPT !.out = generateFromLSH(fx.items), !.done = TRUE]
  /\ UNCHANGED <<config, dbVars, blob, reusableIds, t, ready, ai, batch, pend>>

SpecLSH == InitLSH /\ [][LSH]_vars

\* ------------------------------------------------------------ admin batch commands

\* caves selected by cave.hash and cave.fix
MaxBatch == 3

\* caves selected by cave.ai
MaxAnalyze == 27

FlushThreshold == 100

ChunkSize == 25

\* cave.hash: a cave yields some hashes, or reading or hashing an image throws
HashCaves == [hashes : {0, 60}, fails : BOOLEAN]

\* cave.fix: per cave, what happens to each of its images
FixCaves ==
  { <<>>, <<"clean">>, <<"padded">>, <<"missing">>, <<"unreadable">>,
    <<"padded", "unwritable">>, <<"unreadable", "clean">> }

InitBatch ==
  /\ ingestIdle
  /\ cave \in {SeedEmpty.cave}
  /\ \/ \E items \in SeqsUpTo(HashCaves, MaxBatch) \ {<<>>} :
          batch = [pc |-> "run", op |-> "hash", items |-> items, processedCaveCount |-> 0,
                   errorCount |-> 0, hashesToInsert |-> 0, totalHashesGenerated |-> 0,
                   successCount |-> 0]
     \/ \E n \in 1..MaxAnalyze :
          batch = [pc |-> "run", op |-> "ai", selected |-> n, i |-> 0,
                   successCount |-> 0, failedCount |-> 0]
     \/ \E caves \in SeqsUpTo(FixCaves, MaxBatch) \ {<<>>} :
          batch = [pc |-> "run", op |-> "fix", caves |-> caves, k |-> 0,
                   fixedFiles |-> 0, errorCount |-> 0, reported |-> 0]
  /\ ready = NoReady /\ ai = NoAI /\ fx = NoFx /\ pend = NoPend

still == UNCHANGED <<config, dbVars, blob, reusableIds, t, ready, ai, fx, pend>>

\* cave.hash, one cave of the loop: a throw inside the try, the flush at the
\* threshold included, counts one error and the loop goes on
HashCave ==
  /\ batch.pc = "run" /\ batch.op = "hash"
  /\ batch.processedCaveCount < Len(batch.items)
  /\ still
  /\ LET item    == batch.items[batch.processedCaveCount + 1]
         b       == [batch EXCEPT !.processedCaveCount = @ + 1]
         pending == batch.hashesToInsert + item.hashes
     IN  IF item.fails
         THEN batch' = [b EXCEPT !.errorCount = @ + 1]
         ELSE IF pending >= FlushThreshold
         THEN \/ batch' = [b EXCEPT !.hashesToInsert = 0, !.totalHashesGenerated = @ + pending]
              \/ batch' = [b EXCEPT !.hashesToInsert = pending, !.errorCount = @ + 1]
         ELSE batch' = [b EXCEPT !.hashesToInsert = pending]

\* cave.hash after the loop: the last flush, outside the per-cave try
HashFinish ==
  /\ batch.pc = "run" /\ batch.op = "hash"
  /\ batch.processedCaveCount = Len(batch.items)
  /\ still
  /\ LET done == [batch EXCEPT !.pc = "done", !.hashesToInsert = 0,
                               !.totalHashesGenerated = @ + batch.hashesToInsert,
                               !.successCount = batch.processedCaveCount - batch.errorCount]
     IN  \/ batch' = done
         \/ /\ batch.hashesToInsert > 0
            /\ batch' = [batch EXCEPT !.pc = "failed"]

chunkWhole(n, i) == ChunkSize

\* cavesToAnalyze.slice(i, i + 25).length
chunkOf(n, i) == Min(ChunkSize, n - i)

\* cave.ai, one chunk: every analysis that is rejected or empty counts one
\* failure; the successful ones are upserted together
AiChunk ==
  /\ batch.pc = "run" /\ batch.op = "ai"
  /\ batch.i < batch.selected
  /\ still
  /\ \E failures \in 0..chunkOf(batch.selected, batch.i) :
       LET successful == chunkOf(batch.selected, batch.i) - failures
           b == [batch EXCEPT !.failedCount = @ + failures, !.i = @ + ChunkSize,
                              !.successCount = @ + successful,
                              !.pc = IF batch.i + ChunkSize < batch.selected THEN "run" ELSE "done"]
       IN  \/ batch' = b
           \/ /\ successful > 0
              /\ batch' = [batch EXCEPT !.failedCount = @ + failures, !.pc = "failed"]

\* the images of the selected caves, in the order they are visited
imagesOf(caves) ==
  LET F[c \in 0..Len(caves)] == IF c = 0 THEN <<>> ELSE F[c - 1] \o caves[c]
  IN  F[Len(caves)]

\* cave.fix, one image: a padded image is rewritten; a missing file is
\* skipped silently; any other error counts one failure
FixImage ==
  /\ batch.pc = "run" /\ batch.op = "fix"
  /\ batch.k < Len(imagesOf(batch.caves))
  /\ still
  /\ LET image == imagesOf(batch.caves)[batch.k + 1]
         b     == [batch EXCEPT !.k = @ + 1]
     IN  batch' = IF image = "padded" THEN [b EXCEPT !.fixedFiles = @ + 1]
                  ELSE IF image \in {"unreadable", "unwritable"} THEN [b EXCEPT !.errorCount = @ + 1]
                  ELSE b

\* cave.fix after the loops: the report counts every selected cave as fixed
FixFinish ==
  /\ batch.pc = "run" /\ batch.op = "fix"
  /\ batch.k = Len(imagesOf(batch.caves))
  /\ still
  /\ batch' = [batch EXCEPT !.pc = "done", !.reported = Len(batch.caves)]

NextBatch == HashCave \/ HashFinish \/ AiChunk \/ FixImage \/ FixFinish

SpecBatch == InitBatch /\ [][NextBatch]_vars

\* ------------------------------------------------------------ manual review commands

\* rows of table cave when the review commands are issued
MaxPendRows == 2

PendTables == UNION {[D -> [status : Statuses]] : D \in SUBSET (1..MaxPendRows)}

\* the review commands handled at the same time
Reviewers == {"r1", "r2"}

\* the ids given to a command: none, rows of the table, an id that has no row
PendIdSets == {{}, {1}, {2}, {1, 2}, {1, 3}}

PendCommand(actionType, ids, adm) ==
  [ pc |-> "start", actionType |-> actionType, ids |-> ids, admin |-> adm,
    idsToProcess |-> {}, processedIds |-> {} ]

InitPend ==
  /\ ingestIdle
  /\ cave \in PendTables
  /\ \E R \in (SUBSET Reviewers) \ {{}} :
       pend \in [R -> {PendCommand(a, ids, adm) :
                         a \in {"approve", "reject"}, ids \in PendIdSets, adm \in BOOLEAN}]
  /\ ready = NoReady /\ ai = NoAI /\ fx = NoFx /\ batch = NoBatch

pendingOf(c, ids) == {i \in ids \cap DOMAIN c : c[i].status = "pending"}

targetStatus(actionType) == IF actionType \in {"approve", "auto"} THEN "active" ELSE "delete"

\* upsert of [id, status] for every processed id
upsertAll(c, ids, status) ==
  [i \in (DOMAIN c) \cup ids |-> IF i \in ids THEN [status |-> status] ELSE c[i]]

pendFrame == UNCHANGED <<config, cave_hash, cave_meta, blob, reusableIds, t, ready, ai, fx, batch>>

\* the channel test, and with no id given the query of the pending rows
\* (outside the try: its failure rejects the command)
PendStart(r) ==
  /\ pend[r].pc = "start" /\ pend[r].actionType # "auto"
  /\ pendFrame /\ UNCHANGED cave
  /\ IF ~pend[r].admin
     THEN pend' = [pend EXCEPT ![r].pc = "refused"]
     ELSE IF pend[r].ids # {}
     THEN pend' = [pend EXCEPT ![r].idsToProcess = pend[r].ids, ![r].pc = "get"]
     ELSE \/ LET pendingCaves == pendingOf(cave, DOMAIN cave)
             IN  pend' = [pend EXCEPT ![r].idsToProcess = pendingCaves,
                                      ![r].pc = IF pendingCaves = {} THEN "nothing" ELSE "get"]
          \/ pend' = [pend EXCEPT ![r].pc = "rejected"]

\* database.get of the rows among idsToProcess whose status is pending
PendGet(r) ==
  /\ pend[r].pc = "get"
  /\ pendFrame /\ UNCHANGED cave
  /\ \/ LET processedIds == pendingOf(cave, pend[r].idsToProcess)
        IN  pend' = [pend EXCEPT ![r].processedIds = processedIds,
                                 ![r].pc = IF processedIds = {} THEN "none" ELSE "upsert"]
     \/ pend' = [pend EXCEPT ![r].pc = "failed"]

\* database.upsert of the target status for the rows read by the get
PendUpsert(r) ==
  /\ pend[r].pc = "upsert"
  /\ pendFrame
  /\ \/ /\ cave' = upsertAll(cave, pend[r].processedIds, targetStatus(pend[r].actionType))
        /\ pend' = [pend EXCEPT ![r].pc = "done"]
     \/ /\ UNCHANGED cave
        /\ pend' = [pend EXCEPT ![r].pc = "failed"]

NextPend == \E r \in DOMAIN pend : PendStart(r) \/ PendGet(r) \/ PendUpsert(r)

SpecPend == InitPend /\ [][NextPend]_vars

\* pend.Y, pend.N and pend.A together: every row has an analysis, row 1 at the
\* approve threshold and the others below it
InitPendAuto ==
  /\ config \in ConcConfigs
  /\ cave_hash = {} /\ blob = {} /\ reusableIds = {}
  /\ t = [p \in Sessions |-> Off]
  /\ cave \in PendTables
  /\ cave_meta = {[cave |-> i, rating |-> IF i = 1 THEN DefaultApproveThreshold
                                          ELSE DefaultApproveThreshold - 1] : i \in DOMAIN cave}
  /\ \E R \in (SUBSET Reviewers) \ {{}} :
       pend \in [R -> {PendCommand(a, ids, adm) :
                         a \in {"approve", "reject"}, ids \in PendIdSets, adm \in BOOLEAN}
                       \cup {PendCommand("auto", {}, adm) : adm \in BOOLEAN}]
  /\ ready = NoReady /\ ai = NoAI /\ fx = NoFx /\ batch = NoBatch

\* pend.A: the channel test and the query of the pending rows
AutoStart(r) ==
  /\ pend[r].pc = "start" /\ pend[r].actionType = "auto"
  /\ pendFrame /\ UNCHANGED cave
  /\ IF ~pend[r].admin
     THEN pend' = [pend EXCEPT ![r].pc = "refused"]
     ELSE \/ LET pendingCaveIds == pendingOf(cave, DOMAIN cave)
             IN  pend' = [pend EXCEPT ![r].idsToProcess = pendingCaveIds,
                                      ![r].pc = IF pendingCaveIds = {} THEN "nothing" ELSE "meta"]
          \/ pend' = [pend EXCEPT ![r].pc = "failed"]

\* pend.A: the query of their analyses and the filter on the rating
AutoMeta(r) ==
  /\ pend[r].pc = "meta"
  /\ pendFrame /\ UNCHANGED cave
  /\ \/ LET pendingMeta == {m \in cave_meta : m.cave \in pend[r].idsToProcess}
            idsToApprove == {m.cave : m \in {x \in pendingMeta : x.rating >= config.approveThreshold}}
        IN  pend' = [pend EXCEPT ![r].processedIds = idsToApprove,
                                 ![r].pc = IF idsToApprove = {} THEN "none" ELSE "upsert"]
     \/ pend' = [pend EXCEPT ![r].pc = "failed"]

NextPendAuto == NextPend \/ \E r \in DOMAIN pend : AutoStart(r) \/ AutoMeta(r)

SpecPendAuto == InitPendAuto /\ [][NextPendAuto]_vars

\* ------------------------------------------------------------ requestAI: parsing the response

\* the pieces a response is made of: a word of prose, the literal true, the
\* braces of an object, the fence openers and closers, white space
\*   "p" prose   "t" true   "{" "}"   "F" ```json   "E" ```   " " white space
Pieces == {"p", "t", "{", "}", "F", "E", " "}

\* pieces of a response
MaxContent == 4

SyntaxError == "SyntaxError"

\* String.prototype.trim
trim(text) ==
  LET solid == {k \in 1..Len(text) : text[k] # " "}
  IN  IF solid = {} THEN <<>>
      ELSE SubSeq(text, CHOOSE k \in solid : \A j \in solid : k <= j,
                        CHOOSE k \in solid : \A j \in solid : j <= k)

\* JSON.parse: the value, or SyntaxError; white space around and inside the
\* value is allowed
JSONparse(text) ==
  LET body == trim(text)
  IN  IF body = <<"t">> THEN "true"
      ELSE IF /\ Len(body) >= 2 /\ body[1] = "{" /\ body[Len(body)] = "}"
              /\ \A k \in 2..(Len(body) - 1) : body[k] = " "
      THEN "{}"
      ELSE SyntaxError

NoMatch == [found |-> FALSE, group |-> <<>>]

\* content.match(/```json\s*([\s\S]*?)\s*```/i) and its group 1; the closing
\* ``` also matches the start of another ```json
jsonBlockMatch(content) ==
  LET opens == {k \in 1..Len(content) : content[k] = "F" /\
                  \E j \in (k + 1)..Len(content) : content[j] \in {"E", "F"}}
  IN  IF opens = {} THEN NoMatch
      ELSE LET open  == CHOOSE k \in opens : \A j \in opens : k <= j
               close == CHOOSE k \in (open + 1)..Len(content) :
                          /\ content[k] \in {"E", "F"}
                          /\ \A j \in (open + 1)..(k - 1) : content[j] \notin {"E", "F"}
           IN  [found |-> TRUE, group |-> trim(SubSeq(content, open + 1, close - 1))]

\* what requestAI returns for the content of a response, or that it throws
parseContent(content) ==
  IF trim(content) = <<>> THEN "throws"
  ELSE LET block == jsonBlockMatch(content)
       IN  IF block.found /\ block.group # <<>> /\ JSONparse(block.group) # SyntaxError
           THEN JSONparse(block.group)
           ELSE IF JSONparse(content) # SyntaxError THEN JSONparse(content)
           ELSE "throws"

InitParse ==
  /\ ingestIdle
  /\ cave \in {SeedEmpty.cave}
  /\ \E content \in SeqsUpTo(Pieces, MaxContent) :
       fx = [fn |-> "parse", content |-> content, out |-> "none", done |-> FALSE]
  /\ ready = NoReady /\ ai = NoAI /\ batch = NoBatch /\ pend = NoPend

Parse ==
  /\ fx.fn = "parse" /\ ~fx.done
  /\ fx' = [fx EXCEPT !.out = parseContent(fx.content), !.done = TRUE]
  /\ UNCHANGED <<config, dbVars, blob, reusableIds, t, ready, ai, batch, pend>>

SpecParse == InitParse /\ [][Parse]_vars

\* ------------------------------------------------------------ AIManager.checkForDuplicates

\* rows of table cave_meta when the check runs
MaxMeta == 2

\* the types an analysis may carry; "" when the LLM gave none
Types == {"", "ACG", "meme"}

\* the keyword lists an analysis may carry, as sets; a keyword may repeat the type
KeywordSets ==
  { {}, {"k1", "k2"}, {"k1", "k2", "k3"}, {"k1", "k2", "k3", "k4"}, {"k1", "k2", "ACG"} }

Analyses == [type : Types, keywords : KeywordSets]

\* analyze returned nothing
NoNewAnalysis == [type |-> "none", keywords |-> {}]

MetaTables ==
  UNION { {{[cave |-> i, type |-> f[i].type, keywords |-> f[i].keywords] : i \in D} :
             f \in [D -> Analyses]} : D \in SUBSET (1..MaxMeta) }

InitDup ==
  /\ config \in ConcConfigs
  /\ cave_hash = {} /\ blob = {} /\ reusableIds = {}
  /\ t = [p \in Sessions |-> Off]
  /\ cave_meta \in MetaTables
  /\ \E D \in {1..MaxMeta, 1..(MaxMeta - 1)} : cave = [i \in D |-> [status |-> "active"]]
  \* newId: the submission processNewCave asks about, whose cave row exists and
  \* whose cave_meta row was upserted just before the call; 0 for another caller
  /\ \E newAnalysis \in Analyses \cup {NoNewAnalysis},
        newId \in {0} \cup (DOMAIN cave \cap {m.cave : m \in cave_meta}) :
       fx = [fn |-> "checkForDuplicates", pc |-> "analyze", newAnalysis |-> newAnalysis,
             newId |-> newId,
             similarCaveIds |-> {}, potentialDuplicates |-> {}, requested |-> FALSE,
             returned |-> {}, threw |-> FALSE]
  /\ ready = NoReady /\ ai = NoAI /\ batch = NoBatch /\ pend = NoPend

\* [type, ...keywords] as the set calculateSimilarity makes of it
tagsOf(analysis) == {analysis.type} \cup analysis.keywords

\* AIManager.calculateSimilarity(keywordsA, keywordsB) >= 80, on the sets;
\* (intersection.size / union.size) * 100 is compared without rounding
similarKeywords(setA, setB) ==
  100 * Cardinality(setA \cap setB) >= 80 * Cardinality(setA \cup setB)

allCaveIds(newAnalysis, allMeta) == {meta.cave : meta \in allMeta}

\* the filter over the rows of the same type
similarCaveIds(newAnalysis, allMeta) ==
  {meta.cave : meta \in {m \in allMeta : similarKeywords(tagsOf(newAnalysis), tagsOf(m))}}

dupFrame == UNCHANGED <<config, dbVars, blob, reusableIds, t, ready, ai, batch, pend>>

\* analyze of the new elements, and the test of its type
DupAnalyze ==
  /\ fx.fn = "checkForDuplicates" /\ fx.pc = "analyze"
  /\ dupFrame
  /\ fx' = [fx EXCEPT !.pc = IF fx.newAnalysis = NoNewAnalysis \/ fx.newAnalysis.type = ""
                             THEN "done" ELSE "getMeta"]

\* database.get of the cave_meta rows of the same type, and the filter
DupGetMeta ==
  /\ fx.fn = "checkForDuplicates" /\ fx.pc = "getMeta"
  /\ dupFrame
  /\ \/ LET allMeta == {m \in cave_meta : m.type = fx.newAnalysis.type}
            ids     == similarCaveIds(fx.newAnalysis, allMeta)
        IN  fx' = [fx EXCEPT !.similarCaveIds = ids,
                             !.pc = IF ids = {} THEN "done" ELSE "getCave"]
     \/ fx' = [fx EXCEPT !.pc = "done", !.threw = TRUE]

\* database.get of the cave rows of the similar ids
DupGetCave ==
  /\ fx.fn = "checkForDuplicates" /\ fx.pc = "getCave"
  /\ dupFrame
  /\ \/ LET rows == fx.similarCaveIds \cap DOMAIN cave
        IN  fx' = [fx EXCEPT !.potentialDuplicates = rows,
                             !.pc = IF rows = {} THEN "done" ELSE "isDuplicate"]
     \/ fx' = [fx EXCEPT !.pc = "done", !.threw = TRUE]

\* the ids the LLM may answer the duplicate request with
LlmIds == 1..(MaxMeta + 1)

\* IsDuplicate: one LLM request with the candidates; it answers with a list of
\* ids, which is returned as it is, or fails, which IsDuplicate reports as no
\* duplicate
DupIsDuplicate ==
  /\ fx.fn = "checkForDuplicates" /\ fx.pc = "isDuplicate"
  /\ dupFrame
  /\ \/ \E ids \in SUBSET LlmIds :
          fx' = [fx EXCEPT !.requested = TRUE, !.returned = ids, !.pc = "done"]
     \/ fx' = [fx EXCEPT !.requested = TRUE, !.pc = "done", !.threw = TRUE]

NextDup == DupAnalyze \/ DupGetMeta \/ DupGetCave \/ DupIsDuplicate

SpecDup == InitDup /\ [][NextDup]_vars

\* ------------------------------------------------------------ AIManager.analyze

\* the image elements of a submission: whether the file can be read
ImageLists == {<<>>, <<"readable">>, <<"unreadable">>, <<"unreadable", "readable">>}

\* what requestAI does: http.post throws, the content is empty, no JSON is
\* found in it, the JSON is null, or the JSON is an object
LlmOutcomes == {"networkError", "empty", "unparseable", "null", "object"}

InitModerate ==
  /\ config \in ConcConfigs
  /\ cave_hash = {} /\ blob = {} /\ reusableIds = {}
  /\ t = [p \in Sessions |-> Off]
  /\ cave_meta \in {m \in MetaTables : \A row \in m : row.type = "ACG"}
  /\ cave = [i \in 1..MaxMeta |-> [status |-> "active"]]
  /\ \E caller \in {"analyze", "checkForDuplicates"}, text \in BOOLEAN, images \in ImageLists :
       fx = [fn |-> "checkForDuplicates", caller |-> caller, pc |-> "prepare",
             text |-> text, images |-> images, called |-> FALSE, outcome |-> "none",
             raised |-> FALSE, newAnalysis |-> NoNewAnalysis, newId |-> 0,
             similarCaveIds |-> {}, potentialDuplicates |-> {}, requested |-> FALSE,
             returned |-> {}, threw |-> FALSE]
  /\ ready = NoReady /\ ai = NoAI /\ batch = NoBatch /\ pend = NoPend

\* analyze has its result: it returns to its caller
analyzed(r) == [r EXCEPT !.pc = IF r.caller = "analyze" THEN "done" ELSE "analyze"]

analyzeRethrow(r) == [r EXCEPT !.pc = "done", !.raised = TRUE]

\* the catch block of analyze: the error is logged and null is the result
analyzeCatch(r) == analyzed([r EXCEPT !.newAnalysis = NoNewAnalysis])

\* prepareContent: an image that cannot be read is dropped; with no text and
\* no image left analyze returns null
ModPrepare ==
  /\ fx.fn = "checkForDuplicates" /\ fx.pc = "prepare"
  /\ dupFrame
  /\ LET images == SelectSeq(fx.images, LAMBDA image : image = "readable")
     IN  fx' = IF ~fx.text /\ images = <<>>
               THEN analyzed([fx EXCEPT !.newAnalysis = NoNewAnalysis])
               ELSE [fx EXCEPT !.pc = "request"]

\* requestAI and the record built from its response
ModRequest ==
  /\ fx.fn = "checkForDuplicates" /\ fx.pc = "request"
  /\ dupFrame
  /\ \E outcome \in LlmOutcomes :
       LET r == [fx EXCEPT !.called = TRUE, !.outcome = outcome]
       IN  IF outcome \in {"networkError", "empty", "unparseable"}
           THEN fx' = analyzeCatch(r)
           ELSE IF outcome = "null"
           THEN fx' = analyzed([r EXCEPT !.newAnalysis = NoNewAnalysis])
           ELSE \E analysis \in {a \in Analyses : a.type \in {"", "ACG"}} :
                  fx' = analyzed([r EXCEPT !.newAnalysis = analysis])

NextModerate == ModPrepare \/ ModRequest \/ NextDup

SpecModerate == InitModerate /\ [][NextModerate]_vars

\* ------------------------------------------------------------ cave.check

\* 64-bit hashes: Z, one bit away from it, four bits away from it with one bit
\* in each band of 16, and the complement of Z
Z  == [d \in 1..16 |-> 0]

Z1 == [d \in 1..16 |-> IF d = 16 THEN 1 ELSE 0]

Z4 == [d \in 1..16 |-> IF d % 4 = 0 THEN 1 ELSE 0]

FF == [d \in 1..16 |-> 15]

CheckHashes == {Z, Z1, Z4, FF}

\* rows of table cave_hash when the command runs
MaxHashRows == 3

HashRows == [cave : 1..3, hash : CheckHashes, type : {"text", "image"}]

\* the tables the ingest pipeline can leave: rows differ in their primary key
\* and a cave owns at most one text hash; in the order database.get returns them
HashTables ==
  { rows \in SeqsUpTo(HashRows, MaxHashRows) :
      \A i, j \in 1..Len(rows) : i # j =>
         /\ rows[i] # rows[j]
         /\ ~(rows[i].cave = rows[j].cave /\ rows[i].type = "text" /\ rows[j].type = "text") }

\* two larger tables, with similar texts and similar images at once
MixedTables ==
  { << [cave |-> 1, hash |-> Z,  type |-> "image"], [cave |-> 1, hash |-> Z,  type |-> "text"],
       [cave |-> 2, hash |-> Z1, type |-> "text"],  [cave |-> 2, hash |-> Z,  type |-> "image"] >>,
    << [cave |-> 3, hash |-> Z4, type |-> "text"],  [cave |-> 2, hash |-> Z1, type |-> "text"],
       [cave |-> 1, hash |-> Z,  type |-> "text"],  [cave |-> 1, hash |-> FF, type |-> "image"],
       [cave |-> 2, hash |-> FF, type |-> "image"] >> }

\* BigInt('0x' + hash).toString(2).padStart(64, '0'), written in hex: 16 digits
binHash(hash) ==
  [d \in 1..16 |-> IF d <= 16 - Len(hash) THEN 0 ELSE hash[d - (16 - Len(hash))]]

\* two keys over bands of 32 bits
bandKeysOfHalves(hashObj) ==
  LET bin == binHash(hashObj.hash)
  IN  [i \in 1..2 |-> <<hashObj.type, i - 1, SubSeq(bin, 8 * (i - 1) + 1, 8 * i)>>]

\* the four keys `${type}:${i}:${band}` of a row; a band of 16 bits is written
\* as its 4 hex digits
bandKeys(hashObj) ==
  LET bin == binHash(hashObj.hash)
  IN  [i \in 1..4 |-> <<hashObj.type, i - 1, SubSeq(bin, 4 * (i - 1) + 1, 4 * i)>>]

\* getBucketInfo over the rows
bucketInfos(allHashes) ==
  [k \in 1..Len(allHashes) |-> [id |-> allHashes[k].cave, keys |-> bandKeys(allHashes[k])]]

\* a sequence without its repetitions, first occurrence first
firstSeen(seq) ==
  LET F[k \in 0..Len(seq)] ==
        IF k = 0 THEN <<>>
        ELSE IF \E j \in 1..(k - 1) : seq[j] = seq[k] THEN F[k - 1] ELSE Append(F[k - 1], seq[k])
  IN  F[Len(seq)]

\* the keys of the buckets in the order the Map holds them
bucketKeysOf(items) ==
  LET F[k \in 0..Len(items)] == IF k = 0 THEN <<>> ELSE F[k - 1] \o items[k].keys
  IN  firstSeen(F[Len(items)])

\* the pairs of one bucket in the order of the two loops
pairListOfBucket(ids) ==
  LET uniqueIds == uniqueSorted(ids)
      n == Len(uniqueIds)
      F[k \in 0..(n * n)] ==
        IF k = 0 THEN <<>>
        ELSE LET a == ((k - 1) \div n) + 1
                 b == ((k - 1) % n) + 1
             IN  IF a < b THEN Append(F[k - 1], <<uniqueIds[a], uniqueIds[b]>>) ELSE F[k - 1]
  IN  IF Len(ids) < 2 \/ n < 2 THEN <<>> ELSE F[n * n]

\* the pairs of the buckets, bucket after bucket
pairsOfBuckets(items, keys) ==
  LET F[k \in 0..Len(keys)] ==
        IF k = 0 THEN <<>> ELSE F[k - 1] \o pairListOfBucket(bucketOf(items, keys[k]))
  IN  F[Len(keys)]

\* generateFromLSH over the rows: the Set of pair keys in insertion order
candidatePairsOf(allHashes) ==
  firstSeen(pairsOfBuckets(bucketInfos(allHashes), bucketKeysOf(bucketInfos(allHashes))))

NoHash == <<>>

\* hashLookup.get(id)[type]: the rows are written one after the other, so the
\* last row of the cave and type is the one kept
hashLookup(allHashes, id, type) ==
  LET at == {k \in 1..Len(allHashes) : allHashes[k].cave = id /\ allHashes[k].type = type}
  IN  IF at = {} THEN NoHash ELSE allHashes[CHOOSE k \in at : \A j \in at : j <= k].hash

\* textPairs or imagePairs: the candidate pairs whose two looked-up hashes of
\* the type meet the threshold
pairsOfType(allHashes, candidatePairs, type, threshold) ==
  LET confirmed(pair) ==
        LET h1 == hashLookup(allHashes, pair[1], type)
            h2 == hashLookup(allHashes, pair[2], type)
        IN  h1 # NoHash /\ h2 # NoHash /\ Meets(calculateSimilarity(h1, h2), threshold)
      measured(pair) ==
        [id1 |-> pair[1], id2 |-> pair[2],
         similarity |-> calculateSimilarity(hashLookup(allHashes, pair[1], type),
                                            hashLookup(allHashes, pair[2], type))]
      kept == SelectSeq(candidatePairs, confirmed)
  IN  [k \in 1..Len(kept) |-> measured(kept[k])]

\* the clusters the DSU makes of the pairs: union of every pair, then the ids
\* grouped by their root, in the order the ids were first seen
dsuClusters(pairs) == clusterItemsFromPairs([k \in 1..Len(pairs) |-> <<pairs[k].id1, pairs[k].id2>>])

\* Array.prototype.sort with the comparator before(a, b), which is stable
sortBy(seq, before(_, _)) ==
  LET rank(k) == 1 + Cardinality({j \in 1..Len(seq) :
                      before(seq[j], seq[k]) \/ (~before(seq[k], seq[j]) /\ j < k)})
  IN  [p \in 1..Len(seq) |-> seq[CHOOSE k \in 1..Len(seq) : rank(k) = p]]

ascending(a, b) == a < b

asListed(a, b) == FALSE

\* b.similarity - a.similarity < 0, on the exact fractions
moreSimilar(a, b) == a.similarity[1] * b.similarity[2] > b.similarity[1] * a.similarity[2]

\* one line of the report: the sorted ids and the scores, which the report
\* joins by "|" and by "/"
reportLine(cluster, pairs) ==
  LET inCluster(x) == \E k \in 1..Len(cluster) : cluster[k] = x
      inside(pair) == inCluster(pair.id1) /\ inCluster(pair.id2)
      clusterPairs == sortBy(SelectSeq(pairs, inside), moreSimilar)
  IN  [ids    |-> sortBy(cluster, ascending),
       scores |-> [k \in 1..Len(clusterPairs) |-> toFixed2(clusterPairs[k].similarity)]]

generateReportForType(pairs) ==
  IF pairs = <<>> THEN [reportLines |-> <<>>, clusters |-> 0]
  ELSE LET validClusters == dsuClusters(pairs)
       IN  [reportLines |-> [c \in 1..Len(validClusters) |-> reportLine(validClusters[c], pairs)],
            clusters    |-> Len(validClusters)]

NoReport == [totalClusters |-> 0, sections |-> <<>>]

\* the report: the total, then the section of each type that has lines
reportOf(textPairs, imagePairs) ==
  LET textResult  == generateReportForType(textPairs)
      imageResult == generateReportForType(imagePairs)
      section(label, result) ==
        IF result.reportLines = <<>> THEN <<>>
        ELSE <<[label |-> label, lines |-> result.reportLines]>>
  IN  IF textResult.clusters + imageResult.clusters = 0 THEN NoReport
      ELSE [totalClusters |-> textResult.clusters + imageResult.clusters,
            sections |-> section("text", textResult) \o section("image", imageResult)]

InitCheck ==
  /\ ingestIdle
  /\ cave \in {SeedEmpty.cave}
  /\ \E allHashes \in HashTables \cup MixedTables :
       fx = [fn |-> "check", allHashes |-> allHashes, textPairs |-> <<>>, imagePairs |-> <<>>,
             report |-> NoReport, done |-> FALSE]
  /\ ready = NoReady /\ ai = NoAI /\ batch = NoBatch /\ pend = NoPend

\* the command: fewer than two rows end it; else the confirmed pairs of each
\* type and the report made of them
Check ==
  /\ fx.fn = "check" /\ ~fx.done
  /\ fx' = IF Len(fx.allHashes) < 2 THEN [fx EXCEPT !.done = TRUE]
           ELSE LET candidatePairs == candidatePairsOf(fx.allHashes)
                    textPairs  == pairsOfType(fx.allHashes, candidatePairs, "text", config.textThreshold)
                    imagePairs == pairsOfType(fx.allHashes, candidatePairs, "image", config.imageThreshold)
                IN  [fx EXCEPT !.textPairs = textPairs, !.imagePairs = imagePairs,
                               !.report = reportOf(textPairs, imagePairs), !.done = TRUE]
  /\ UNCHANGED <<config, dbVars, blob, reusableIds, t, ready, ai, batch, pend>>

SpecCheck == InitCheck /\ [][Check]_vars

\* ------------------------------------------------------------ cave.check: the band keys

\* bit positions of the 64-bit string, two in each band of 16
BandBits == {0, 15, 16, 31, 32, 47, 48, 63}

\* how many bits two hashes differ in, at most
MaxFlips == 4

\* the hash whose bits at the positions of S differ from those of hash
flipped(hash, S) ==
  [d \in 1..16 |->
     LET b(k) == (((hash[d] \div (2 ^ k)) % 2)
                    + (IF (4 * (d - 1) + (3 - k)) \in S THEN 1 ELSE 0)) % 2
     IN  b(0) + 2 * b(1) + 4 * b(2) + 8 * b(3)]

\* two rows of two caves whose hashes differ in the bits of S, in either
\* order, alone or with a row of a third cave
BandTables ==
  { IF swap THEN <<two[2], two[1]>> \o third ELSE two \o third :
      two \in { << [cave |-> 1, hash |-> base, type |-> ty[1]],
                   [cave |-> 2, hash |-> flipped(base, S), type |-> ty[2]] >> :
                  base \in {Z, FF},
                  S \in {X \in SUBSET BandBits : Cardinality(X) <= MaxFlips},
                  ty \in {"text", "image"} \X {"text", "image"} },
      swap \in BOOLEAN,
      third \in {<<>>, <<[cave |-> 3, hash |-> FF, type |-> "image"]>>} }

InitBands ==
  /\ ingestIdle
  /\ cave \in {SeedEmpty.cave}
  /\ \E allHashes \in BandTables :
       fx = [fn |-> "bands", allHashes |-> allHashes, items |-> <<>>,
             candidatePairs |-> <<>>, done |-> FALSE]
  /\ ready = NoReady /\ ai = NoAI /\ batch = NoBatch /\ pend = NoPend

\* the command up to its candidate pairs: the bucket info of every row and
\* the pairs generateFromLSH makes of them
Bands ==
  /\ fx.fn = "bands" /\ ~fx.done
  /\ fx' = [fx EXCEPT !.items = bucketInfos(fx.allHashes),
                      !.candidatePairs = candidatePairsOf(fx.allHashes),
                      !.done = TRUE]
  /\ UNCHANGED <<config, dbVars, blob, reusableIds, t, ready, ai, batch, pend>>

SpecBands == InitBands /\ [][Bands]_vars

\* ------------------------------------------------------------ calculateHammingDistance, calculateSimilarity

\* digits of the short hex strings
HexDigits == {0, 5, 15}

\* length of the short hex strings
MaxHex == 2

\* short hex strings of every length, and hashes of 16 digits
HexStrings == SeqsUpTo(HexDigits, MaxHex) \cup CheckHashes

\* thresholds in hundredths of a percent, around the similarity of Z and Z4
SimThresholds == {7500, 9375, 9376, 9500}

InitHamming ==
  /\ ingestIdle
  /\ cave \in {SeedEmpty.cave}
  /\ \E a, b, c \in HexStrings : \E threshold \in SimThresholds :
       fx = [fn |-> "hamming", a |-> a, b |-> b, c |-> c, threshold |-> threshold,
             ab |-> 0, ba |-> 0, bc |-> 0, ac |-> 0,
             similarity |-> <<0, 1>>, same |-> <<0, 1>>, meets |-> FALSE, done |-> FALSE]
  /\ ready = NoReady /\ ai = NoAI /\ batch = NoBatch /\ pend = NoPend

\* the distances between the three strings, the similarity of a and b and of
\* a with itself, and the comparison of the first with the threshold
Hamming ==
  /\ fx.fn = "hamming" /\ ~fx.done
  /\ fx' = [fx EXCEPT !.ab = calculateHammingDistance(fx.a, fx.b),
                      !.ba = calculateHammingDistance(fx.b, fx.a),
                      !.bc = calculateHammingDistance(fx.b, fx.c),
                      !.ac = calculateHammingDistance(fx.a, fx.c),
                      !.similarity = calculateSimilarity(fx.a, fx.b),
                      !.same = calculateSimilarity(fx.a, fx.a),
                      !.meets = Meets(calculateSimilarity(fx.a, fx.b), fx.threshold),
                      !.done = TRUE]
  /\ UNCHANGED <<config, dbVars, blob, reusableIds, t, ready, ai, batch, pend>>

SpecHamming == InitHamming /\ [][Hamming]_vars

\* ------------------------------------------------------------ cave.hash beside cave.add

\* a database whose cave 3 was stored without hash rows; its two image
\* elements name files with the same pHash
SeedThree ==
  [ cave |-> [i \in {1, 2, 3} |-> [status |-> "active"]],
    hash |-> SeedTwo.hash,
    meta |-> SeedTwo.meta ]

\* the elements of the rows persisted by earlier runs: the Simhash of the
\* combined text and, per image element, the pHash of its file
SeedElements ==
  [i \in {1, 2, 3} |->
     IF i = 1 THEN [text |-> HA, images |-> <<HP>>]
     ELSE IF i = 2 THEN [text |-> HA2, images |-> <<>>]
     ELSE [text |-> HB, images |-> <<HQ, HQ>>]]

InitBackfill == InitWith(ConcConfigs, {SeedThree}, {"s1"}, ConcContents, {FALSE})

\* the elements column of row id: what cave.add created and processNewCave
\* remapped, or what an earlier run left
elementsOf(id) ==
  LET owners == {p \in Sessions : t[p].id = id /\ t[p].outcome = "ok"}
  IN  IF owners # {}
      THEN LET p == CHOOSE q \in owners : TRUE
           IN  [text |-> t[p].text, images |-> [i \in 1..Len(t[p].files) |-> t[p].media[t[p].files[i]]]]
      ELSE SeedElements[id]

addEveryHash(tempHashes, hashObj) == Append(tempHashes, hashObj)

\* addUniqueHash: the row is pushed unless its hash-type key was seen
addUniqueHash(tempHashes, hashObj) ==
  IF \E k \in 1..Len(tempHashes) : tempHashes[k].hash = hashObj.hash /\ tempHashes[k].type = hashObj.type
  THEN tempHashes
  ELSE Append(tempHashes, hashObj)

\* the rows generated for one cave: its text hash, then its image hashes
newHashesForCave(id, elements) ==
  LET first == IF elements.text # NoText
               THEN addUniqueHash(<<>>, [cave |-> id, hash |-> elements.text, type |-> "text"])
               ELSE <<>>
      F[k \in 0..Len(elements.images)] ==
        IF k = 0 THEN first
        ELSE addUniqueHash(F[k - 1], [cave |-> id, hash |-> elements.images[k], type |-> "image"])
  IN  F[Len(elements.images)]

\* the ids of a set in ascending order
sortedIds(S) ==
  LET F[k \in 0..Cardinality(S)] ==
        IF k = 0 THEN <<>>
        ELSE Append(F[k - 1], CHOOSE i \in S : Cardinality({j \in S : j < i}) = k - 1)
  IN  F[Cardinality(S)]

backfillFrame == UNCHANGED <<config, cave, cave_meta, blob, reusableIds, t, ready, ai, fx, pend>>

\* cave.hash up to its first read: the active rows, with their elements
BackfillStart ==
  /\ batch.pc = "off"
  /\ batch' = [pc |-> "getHashes", op |-> "backfill",
               allCaves |-> [i \in {j \in DOMAIN cave : cave[j].status = "active"} |-> elementsOf(i)],
               cavesToProcess |-> <<>>, processedCaveCount |-> 0, errorCount |-> 0,
               hashesToInsert |-> <<>>, totalHashesGenerated |-> 0]
  /\ UNCHANGED cave_hash
  /\ backfillFrame

\* the second read: the caves that own no hash row are selected
BackfillGetHashes ==
  /\ batch.pc = "getHashes"
  /\ LET hashedCaveIds == {h.cave : h \in cave_hash}
         selected == sortedIds(DOMAIN batch.allCaves \ hashedCaveIds)
     IN  batch' = [batch EXCEPT !.cavesToProcess = selected,
                                !.pc = IF selected = <<>> THEN "done" ELSE "loop"]
  /\ UNCHANGED cave_hash
  /\ backfillFrame

\* one cave of the loop: reading or hashing one of its images may throw, which
\* counts one error; the batch is flushed at the threshold
BackfillCave ==
  /\ batch.pc = "loop"
  /\ batch.processedCaveCount < Len(batch.cavesToProcess)
  /\ backfillFrame
  /\ LET id == batch.cavesToProcess[batch.processedCaveCount + 1]
         b == [batch EXCEPT !.processedCaveCount = @ + 1]
         pending == batch.hashesToInsert \o newHashesForCave(id, batch.allCaves[id])
     IN  \/ /\ batch.allCaves[id].images # <<>>
            /\ batch' = [b EXCEPT !.errorCount = @ + 1]
            /\ UNCHANGED cave_hash
         \/ IF Len(pending) >= FlushThreshold
            THEN /\ cave_hash' = cave_hash \cup {pending[k] : k \in 1..Len(pending)}
                 /\ batch' = [b EXCEPT !.hashesToInsert = <<>>, !.totalHashesGenerated = @ + Len(pending)]
            ELSE /\ batch' = [b EXCEPT !.hashesToInsert = pending]
                 /\ UNCHANGED cave_hash

\* the flush after the loop
BackfillFlush ==
  /\ batch.pc = "loop"
  /\ batch.processedCaveCount = Len(batch.cavesToProcess)
  /\ backfillFrame
  /\ \/ /\ cave_hash' = cave_hash \cup {batch.hashesToInsert[k] : k \in 1..Len(batch.hashesToInsert)}
        /\ batch' = [batch EXCEPT !.pc = "done", !.hashesToInsert = <<>>,
                                  !.totalHashesGenerated = @ + Len(batch.hashesToInsert)]
     \/ /\ batch.hashesToInsert # <<>>
        /\ batch' = [batch EXCEPT !.pc = "failed"]
        /\ UNCHANGED cave_hash

NextBackfill == Next \/ BackfillStart \/ BackfillGetHashes \/ BackfillCave \/ BackfillFlush

SpecBackfill == InitBackfill /\ [][NextBackfill]_vars

\* ------------------------------------------------------------ AIManager.analyze: the rating

\* the numbers the LLM may give as a rating
MaxRating == 103

\* the JSON value of the field rating of the parsed response: absent, null, a
\* number, a string that reads as a number ("85"), or another string ("high")
JsonRatings ==
  {[kind |-> "missing", n |-> 0], [kind |-> "null", n |-> 0], [kind |-> "text", n |-> 0]}
    \cup [kind : {"number", "numeral"}, n : (0 - 3)..MaxRating]

\* the parsed response: a falsy value, or an object
Responses == {[object |-> FALSE, rating |-> [kind |-> "missing", n |-> 0]]}
               \cup [object : {TRUE}, rating : JsonRatings]

NaN == [nan |-> TRUE, n |-> 0]

Num(n) == [nan |-> FALSE, n |-> n]

\* value || 0
orZero(value) ==
  IF value.kind \in {"missing", "null"} \/ (value.kind = "number" /\ value.n = 0)
  THEN [kind |-> "number", n |-> 0]
  ELSE value

\* ToNumber, which Math.min and Math.max apply to their arguments
toNumber(value) == IF value.kind = "text" THEN NaN ELSE Num(value.n)

mathMin(a, b) == IF a.nan \/ b.nan THEN NaN ELSE Num(Min(a.n, b.n))

mathMax(a, b) == IF a.nan \/ b.nan THEN NaN ELSE Num(Max(a.n, b.n))

\* Math.max(0, Math.min(100, response.rating || 0))
ratingOf(response) == mathMax(Num(0), mathMin(Num(100), toNumber(orZero(response.rating))))

InitRating ==
  /\ ingestIdle
  /\ cave = SeedTwo.cave
  /\ \E response \in Responses, id \in DOMAIN SeedTwo.cave :
       fx = [fn |-> "analyze", pc |-> "request", cave |-> id, response |-> response,
             analyses |-> <<>>]
  /\ ready = NoReady /\ ai = NoAI /\ batch = NoBatch /\ pend = NoPend

\* analyze after requestAI has returned the parsed response
RateAnalyze ==
  /\ fx.fn = "analyze" /\ fx.pc = "request"
  /\ fx' = [fx EXCEPT !.pc = "upsert",
                      !.analyses = IF fx.response.object
                                   THEN <<[cave |-> fx.cave, rating |-> ratingOf(fx.response)]>>
                                   ELSE <<>>]
  /\ UNCHANGED <<config, dbVars, blob, reusableIds, t, ready, ai, batch, pend>>

\* database.upsert('cave_meta', analyses) of processNewCave and of cave.ai; the
\* driver may refuse a rating that is not a number
RateUpsert ==
  /\ fx.fn = "analyze" /\ fx.pc = "upsert"
  /\ IF fx.analyses = <<>>
     THEN /\ fx' = [fx EXCEPT !.pc = "done"]
          /\ UNCHANGED cave_meta
     ELSE \/ /\ cave_meta' = upsertMeta(cave_meta, fx.analyses[1])
             /\ fx' = [fx EXCEPT !.pc = "done"]
          \/ /\ fx.analyses[1].rating.nan
             /\ fx' = [fx EXCEPT !.pc = "failed"]
             /\ UNCHANGED cave_meta
  /\ UNCHANGED <<config, cave, cave_hash, blob, reusableIds, t, ready, ai, batch, pend>>

NextRating == RateAnalyze \/ RateUpsert

SpecRating == InitRating /\ [][NextRating]_vars

\* ------------------------------------------------------------ getNextCaveId on any pool

\* the ids of the rows of table cave when cave.add is called: with and
\* without a gap
AllocTables == {{1, 2}, {1, 2, 3}, {1, 2, 4}, {1, 2, 3, 5}}

\* the ids a pool may hold: the no-gap marker and recycled ids
MaxId == 5

\* one cave.add on a table and a pool of ids recycled from rows that are gone;
\* fx keeps the table and the pool the command found
InitAlloc ==
  /\ config \in ConcConfigs
  /\ \E D \in AllocTables : cave = [i \in D |-> [status |-> "active"]]
  /\ cave_hash = SeedTwo.hash /\ cave_meta = SeedTwo.meta
  /\ blob = {}
  /\ reusableIds \in SUBSET ((0..MaxId) \ DOMAIN cave)
  /\ \E c \in ConcContents \cup {[text |-> NoText, media |-> <<>>]} :
       t = [p \in Sessions |-> IF p = "s1" THEN Ready(c, FALSE) ELSE Off]
  /\ fx = [fn |-> "getNextCaveId", reusableIds |-> reusableIds, existingIds |-> DOMAIN cave]
  /\ ready = NoReady /\ ai = NoAI /\ batch = NoBatch /\ pend = NoPend

SpecAlloc == InitAlloc /\ [][Next]_vars

\* ------------------------------------------------------------ cave.add of forwarded messages

\* submissions with media inside forward nodes
ForwardContents ==
  { [text |-> HA1,    media |-> <<>>,       nested |-> {}],
    [text |-> HB,     media |-> <<HQ, HQ>>, nested |-> {}],
    [text |-> HB,     media |-> <<HQ, HQ>>, nested |-> {2}],
    [text |-> NoText, media |-> <<HQ, HQ>>, nested |-> {1, 2}] }

InitForward == InitWith(ConcConfigs, {SeedTwo}, {"s1"}, ForwardContents, {FALSE})

SpecForward == InitForward /\ [][Next]_vars

\* ------------------------------------------------------------ properties

Running == {p \in Sessions : t[p].pc # "off"}

\* processNewCave was started for the session and has returned or thrown
Ended(p) ==
  \/ t[p].pc = "sendForPend"
  \/ t[p].pc = "done" /\ t[p].outcome \in {"simReject", "dupReject", "aiReject", "error", "ok"}

statusOf(p) == IF t[p].id \in DOMAIN cave THEN cave[t[p].id].status ELSE "none"

rowsOf(id) == {h \in cave_hash : h.cave = id} \cup {m \in cave_meta : m.cave = id}

Said(p, kind) == \E i \in 1..Len(t[p].sent) : t[p].sent[i].kind = kind

\* C1: after a failed ingest (similarity, semantic-duplicate or AI low-rating
\* rejection, or an exception in processNewCave) no cave_hash row and no
\* cave_meta row carries the submission's id.
C1_NoRowsAfterFailedIngest ==
  \A p \in Running :
    (t[p].pc = "done" /\ t[p].outcome \in {"simReject", "dupReject", "aiReject", "error"})
      => rowsOf(t[p].id) = {}

\* C2: when an external call of the ingest throws (download, blob save,
\* database read or write, the LLM request of analyze) the row ends with status
\* delete and the user is sent the processing-failed message.  The failure of
\* the rollback write itself is left aside here.
C2_ExternalFailureTombstones ==
  \A p \in Running :
    (Ended(p) /\ t[p].pc = "done" /\ t[p].threw # {} /\ "rollback" \notin t[p].threw)
      => (statusOf(p) = "delete" /\ Said(p, "failed"))

\* C3: a submission for which the similarity gate found a persisted hash at or
\* above the threshold never becomes active or pending, and ends in delete.
C3_GateHitEndsDelete ==
  \A p \in Running :
    t[p].gateHit => /\ statusOf(p) \notin {"active", "pending"}
                    /\ (Ended(p) => statusOf(p) = "delete")

\* C4: no semantic-duplicate or AI low-rating rejection fires for a submission
\* once a cave_hash or cave_meta row of it has been written.
C4_NoRejectionAfterCommit ==
  \A p \in Running : t[p].pc \in {"dupSend", "aiSend"} => rowsOf(t[p].id) = {}

\* C5: under any interleaving of cave.add commands no two of them hold the
\* same new id between getNextCaveId and database.create, and database.create
\* is never called with the id of an existing row.
C5_UniqueIds ==
  /\ \A p, q \in Running :
       (p # q /\ t[p].pc = "elements" /\ t[q].pc = "elements") => t[p].id # t[q].id
  /\ \A p \in Running : ~t[p].dupCreate

C7_PendingWhenReviewEnabled ==
  \A p \in Running :
    ( /\ t[p].decision # "none"
      /\ config.enablePend
      /\ \/ ~config.enableAI
         \/ t[p].analysis.present /\ t[p].analysis.rating < config.approveThreshold )
    => /\ t[p].decision = "pending"
       /\ t[p].written # "none" => (t[p].written = "pending" /\ t[p].handed)

\* C7 amended: when manual review is needed (enabled and the submission is not
\* from the admin channel), the submission passes the gates, and either AI is
\* disabled or the rating is below the approve threshold and auto-approve is
\* off or onAIReviewFail falls through to manual review, the pipeline decides
\* pending; the status it writes is pending and it then calls sendForPend.
C7_PendingWhenReviewNeeded ==
  \A p \in Running :
    ( /\ t[p].decision # "none"
      /\ config.enablePend /\ ~t[p].admin
      /\ \/ ~config.enableAI
         \/ /\ t[p].analysis.present /\ t[p].analysis.rating < config.approveThreshold
            /\ (~config.enableApprove \/ config.onAIReviewFail) )
    => /\ t[p].decision = "pending"
       /\ t[p].pc = "final" => t[p].finalStatus = "pending"
       /\ t[p].written # "none" => (t[p].written = "pending" /\ t[p].handed)

\* C7 witness: a low rating with fall-through to manual review was written
\* pending and handed to sendForPend.
C7_Witness ==
  \E p \in Running :
    /\ config.enableAI /\ config.enableApprove /\ config.onAIReviewFail
    /\ t[p].analysis.present /\ t[p].analysis.rating < config.approveThreshold
    /\ t[p].written = "pending" /\ t[p].handed /\ statusOf(p) = "pending"

\* the condition under which the pipeline approves on its own
C8_Approves(p) ==
  \/ ~(config.enablePend /\ ~t[p].admin)
  \/ /\ config.enableAI /\ config.enableApprove
     /\ t[p].analysis.present /\ t[p].analysis.rating >= config.approveThreshold

\* C8: the status processNewCave decides and writes for a submission that
\* passed the gates is active exactly when no manual review is needed or AI
\* auto-approve is on and the rating is at or above the approve threshold; the
\* row is active in no other case, except by sendForPend's own approval.
C8_ActiveExactlyWhenApproved ==
  \A p \in Running :
    /\ t[p].pc = "final" => (t[p].finalStatus = "active" <=> C8_Approves(p))
    /\ t[p].written # "none" => (t[p].written = "active" <=> C8_Approves(p))
    /\ (t[p].decision # "none" /\ C8_Approves(p)) => t[p].decision = "active"
    /\ statusOf(p) = "active" => \/ t[p].written = "active" /\ C8_Approves(p)
                                 \/ t[p].written = "pending" /\ t[p].handed /\ ~config.adminValid

\* C8 witness: under manual review a rating equal to the approve threshold was
\* written active.
C8_Witness ==
  \E p \in Running :
    /\ config.enablePend /\ ~t[p].admin
    /\ t[p].analysis.present /\ t[p].analysis.rating = config.approveThreshold
    /\ t[p].written = "active" /\ statusOf(p) = "active"

AiFailedSaid(p) ==
  \E i \in 1..Len(t[p].sent) :
    t[p].sent[i] = [kind |-> "aiFailed", rating |-> t[p].analysis.rating]

C10_SimilarityRejectionTombstones ==
  \A p \in Running :
    (Said(p, "similar") /\ "session.send" \notin t[p].threw) =>
      /\ t[p].gateHit
      /\ \E i \in 1..Len(t[p].sent) :
           t[p].sent[i] = [kind |-> "similar", what |-> t[p].hit.kind,
                           prior |-> t[p].hit.prior, pct |-> t[p].hit.pct]
      /\ t[p].hit.kind = "text" => t[p].imageStore = {}
      /\ Ended(p) => statusOf(p) = "delete"

\* C11: after a successful ingest, elements that referred to copies of the same
\* image (equal pHash) reference one canonical file, and only one file per
\* distinct image of the submission is in the blob store.
C11_MediaDeduplicated ==
  \A p \in Running :
    t[p].outcome = "ok" =>
      /\ \A i, j \in 1..Len(t[p].media) :
           t[p].media[i] = t[p].media[j] => t[p].files[i] = t[p].files[j]
      /\ \A a, b \in blob :
           (a[1] = t[p].id /\ b[1] = t[p].id /\ t[p].media[a[2]] = t[p].media[b[2]]) => a = b

\* C12: once an ingest path (similarity, semantic-duplicate or AI low-rating
\* rejection, exception rollback) has tombstoned the submission, its id is in
\* the reusable-id pool.
C12_TombstonedIdRecycled ==
  \A p \in Running :
    ( /\ t[p].pc = "done"
      /\ t[p].outcome \in {"simReject", "dupReject", "aiReject", "error"}
      /\ statusOf(p) = "delete" )
    => t[p].id \in reusableIds

\* C13: when the ready handler completes without error, every row that was
\* preload at startup is delete and the sweep has run; the rows that were
\* active, pending or delete are unchanged.
C13_StartupSweep ==
  ready.pc = "done" =>
    /\ DOMAIN cave = DOMAIN ready.startup
    /\ \A i \in DOMAIN ready.startup :
         IF ready.startup[i].status = "preload"
         THEN cave[i].status = "delete" /\ ready.swept
         ELSE cave[i] = ready.startup[i]

\* C13 witness: the handler completed on a table that held a preload row and
\* an active row.
C13_Witness ==
  /\ ready.pc = "done"
  /\ \E i, j \in DOMAIN ready.startup :
       /\ ready.startup[i].status = "preload" /\ cave[i].status = "delete"
       /\ ready.startup[j].status = "active" /\ cave[j].status = "active"

\* C14: the k-th request issued (counting from 0, whatever happened to the
\* earlier ones and however requests overlap) uses endpoint k mod n, and the
\* stored index stays in 0..n-1.
C14_RoundRobin ==
  ai.pc = "on" =>
    /\ ai.endpointIndex \in 0..(ai.endpoints - 1)
    /\ \A k \in 1..Len(ai.requests) : ai.requests[k].endpoint = (k - 1) % ai.endpoints

\* C14 witness: with two endpoints, a request was issued while another was in
\* flight, one request threw, and the index has wrapped around.
C14_Witness ==
  /\ ai.pc = "on" /\ ai.endpoints = 2 /\ Len(ai.requests) >= 3
  /\ ai.requests[1].state = "threw"
  /\ ai.requests[2].at <= ai.requests[1].end /\ ai.requests[2].state = "flight"
  /\ ai.requests[3].endpoint = 0

\* C15: after an LLM call threw, no later call is issued before 30 s (one
\* period of the clock) have passed since the throw, unless a call that
\* succeeded after the throw cleared the barrier.
C15_RetryBarrier ==
  ai.pc = "on" =>
    \A k, j \in 1..Len(ai.requests) :
      ( /\ k < j
        /\ ai.requests[k].state = "threw"
        /\ ai.requests[k].end <= ai.requests[j].at
        /\ ~\E m \in 1..Len(ai.requests) :
             /\ ai.requests[m].state = "ok"
             /\ ai.requests[k].end <= ai.requests[m].end
             /\ ai.requests[m].end <= ai.requests[j].at )
      => ai.requests[j].at >= ai.requests[k].end + 1

\* C16: for a PNG, JPEG or GIF image b that ends at its terminator and any
\* bytes p, sanitize(b ++ p) = b; for any other magic the input comes back
\* unchanged; the output is always a prefix of the input.
C16_PaddingInvariance ==
  (fx.fn = "sanitize" /\ fx.done) =>
    /\ fx.family \in {"png", "jpeg", "gif"} => fx.out = fx.b
    /\ fx.family = "other" => fx.out = fx.b \o fx.p
    /\ Len(fx.out) <= Len(fx.b \o fx.p) /\ fx.out = SubSeq(fx.b \o fx.p, 1, Len(fx.out))

\* the distinct lowercased non-whitespace characters of a text
C17_Letters(text) ==
  {IF text[k] = "A" THEN "a" ELSE text[k] : k \in {j \in 1..Len(text) : text[j] # " "}}

RECURSIVE C18_Reach(_, _, _)
C18_Reach(pairs, S, n) ==
  IF n = 0 THEN S
  ELSE C18_Reach(pairs,
         S \cup {y \in ItemIds : \E k \in 1..Len(pairs) :
                    \/ pairs[k][1] \in S /\ pairs[k][2] = y
                    \/ pairs[k][2] \in S /\ pairs[k][1] = y},
         n - 1)

\* C18: two distinct ids are in one returned cluster exactly when a path
\* through the pairs connects them; no id is in two clusters or twice in one;
\* every returned cluster has at least 2 ids.
C18_ClustersAreComponents ==
  (fx.fn = "cluster" /\ fx.done) =>
    LET out == fx.out
        in(a, c) == \E k \in 1..Len(out[c]) : out[c][k] = a
    IN  /\ \A a, b \in ItemIds :
             a # b => ( (\E c \in 1..Len(out) : in(a, c) /\ in(b, c))
                        <=> b \in C18_Reach(fx.pairs, {a}, Cardinality(ItemIds)) )
        /\ \A c, d \in 1..Len(out) : \A a \in ItemIds : (in(a, c) /\ in(a, d)) => c = d
        /\ \A c \in 1..Len(out) :
             /\ Len(out[c]) >= 2
             /\ \A k, j \in 1..Len(out[c]) : out[c][k] = out[c][j] => k = j

\* C18 witness: the pairs (1,2), (1,3), (4,4) gave the single cluster of 1, 2
\* and 3; the singleton 4 was filtered out.
C18_Witness ==
  /\ fx.fn = "cluster" /\ fx.done
  /\ fx.pairs = <<(<<1, 2>>), (<<1, 3>>), (<<4, 4>>)>>
  /\ Len(fx.out) = 1 /\ {fx.out[1][k] : k \in 1..Len(fx.out[1])} = {1, 2, 3}

\* items with ids a and b share a bucket key
C19_Share(items, a, b) ==
  \E m, n \in 1..Len(items) :
    /\ items[m].id = a /\ items[n].id = b
    /\ \E i \in 1..Len(items[m].keys) : \E j \in 1..Len(items[n].keys) :
         items[m].keys[i] = items[n].keys[j]

\* C19: for items with positive ids and non-empty key lists, the key "a-b" is
\* returned exactly when a < b and items with ids a and b share a bucket key;
\* no id is paired with itself.
C19_PairsShareBucket ==
  (fx.fn = "lsh" /\ fx.done) =>
    /\ \A e \in fx.out : e[1] < e[2]
    /\ \A a, b \in 1..3 : a < b => (<<a, b>> \in fx.out <=> C19_Share(fx.items, a, b))

\* C19 witness: id 2 was placed twice in bucket k1 and once in k2, id 1 once
\* in k1: the only pair returned is 1-2.
C19_Witness ==
  /\ fx.fn = "lsh" /\ fx.done
  /\ fx.items = << [id |-> 2, keys |-> <<"k1", "k1">>], [id |-> 1, keys |-> <<"k1">>],
                   [id |-> 2, keys |-> <<"k2">>] >>
  /\ fx.out = {<<1, 2>>}

\* the number of positions of a sequence that satisfy a test
C20_Count(seq, Test(_)) == Cardinality({k \in 1..Len(seq) : Test(seq[k])})

C20_Throws(item) == item.fails

C20_Counted(image) == image \in {"unreadable", "unwritable"}

C20_Padded(image) == image = "padded"

C21_OnlyPendingRowsModified ==
  /\ [](\A r \in DOMAIN pend : ~pend[r].admin => pend[r].pc \in {"start", "refused"})
  /\ [][\A i \in DOMAIN cave : cave[i].status # "pending" => cave'[i] = cave[i]]_vars

\* C22: whenever table cave_hash or table cave_meta holds a row with the id of
\* a submission, every canonical media file of that submission is in the blob
\* store: the rows are written only after the files have been saved.
C22_MediaSavedBeforeCommit ==
  \A p \in Sessions :
    (/\ t[p].pc \notin {"off", "idle", "getLast", "getAll", "elements"} /\ ~t[p].dupCreate
     /\ t[p].outcome \notin {"noContent", "createFailed"}
     /\ \/ \E h \in cave_hash : h.cave = t[p].id
        \/ \E m \in cave_meta : m.cave = t[p].id)
    => /\ t[p].pc \notin {"download", "dedupe", "gateText", "gateImage", "save"}
       /\ \A k \in 1..Len(t[p].canon) : <<t[p].id, t[p].canon[k]>> \in blob

\* C22 witness: a submission with a media file has its file saved and both
\* its hash rows and its meta row written.
C22_Witness ==
  \E p \in Sessions :
    /\ t[p].canon # <<>>
    /\ \A k \in 1..Len(t[p].canon) : <<t[p].id, t[p].canon[k]>> \in blob
    /\ \E h \in cave_hash : h.cave = t[p].id
    /\ \E m \in cave_meta : m.cave = t[p].id

\* the substring from the first "{" to the last "}"
C23_Bracketed(content) ==
  LET opens  == {k \in 1..Len(content) : content[k] = "{"}
      closes == {k \in 1..Len(content) : content[k] = "}"}
  IN  IF opens = {} \/ closes = {} THEN NoMatch
      ELSE [found |-> TRUE,
            group |-> SubSeq(content, CHOOSE k \in opens : \A j \in opens : k <= j,
                                      CHOOSE k \in closes : \A j \in closes : j <= k)]

\* the three stages in order: fenced block, bracketed substring, whole body
C23_ThreeStages(content) ==
  LET block   == jsonBlockMatch(content)
      bracket == C23_Bracketed(content)
  IN  IF block.found /\ block.group # <<>> /\ JSONparse(block.group) # SyntaxError
      THEN JSONparse(block.group)
      ELSE IF bracket.found /\ JSONparse(bracket.group) # SyntaxError THEN JSONparse(bracket.group)
      ELSE IF JSONparse(content) # SyntaxError THEN JSONparse(content)
      ELSE "throws"

\* C23: the value requestAI extracts from a response is that of the first of
\* the fenced block, the bracketed substring and the whole body that parses,
\* and the request throws only when none of the three parses.
C23_ExtractionStages ==
  (fx.fn = "parse" /\ fx.done /\ trim(fx.content) # <<>>) =>
    fx.out = C23_ThreeStages(fx.content)

\* the Jaccard similarity of two tag sets is at least 80%
C24_Jaccard80(A, B) == Cardinality(A \cap B) * 5 >= Cardinality(A \cup B) * 4

\* the submissions with a cave row and a meta row of the type of the new
\* analysis whose tags are at least 80% similar to the new tags
C24_Candidates ==
  { m.cave : m \in { x \in cave_meta :
       /\ x.cave \in DOMAIN cave
       /\ x.type = fx.newAnalysis.type
       /\ C24_Jaccard80({x.type} \cup x.keywords,
                        {fx.newAnalysis.type} \cup fx.newAnalysis.keywords) } }

C24_Finished ==
  /\ fx.fn = "checkForDuplicates" /\ fx.pc = "done"
  /\ fx.newAnalysis # NoNewAnalysis

\* C24 as stated: for every new analysis, when no database read fails, the
\* candidates sent to the LLM are exactly the similar submissions of the same
\* type, and the request is issued exactly when there is one.
C24_CandidatesExact ==
  (C24_Finished /\ (fx.threw => fx.requested)) =>
    /\ fx.requested <=> C24_Candidates # {}
    /\ fx.requested => fx.potentialDuplicates = C24_Candidates
    /\ ~fx.requested => fx.returned = {}

\* C24 amended: the same for a new analysis whose type is not empty; with no
\* analysis or an empty type nothing is read, no request is issued and the
\* empty list is returned.
C24_CandidatesExactForTypedAnalysis ==
  (fx.fn = "checkForDuplicates" /\ fx.pc = "done") =>
    /\ (fx.newAnalysis # NoNewAnalysis /\ fx.newAnalysis.type # "" /\ (fx.threw => fx.requested)) =>
         /\ fx.requested <=> C24_Candidates # {}
         /\ fx.requested => fx.potentialDuplicates = C24_Candidates
    /\ (fx.newAnalysis = NoNewAnalysis \/ fx.newAnalysis.type = "") =>
         ~fx.requested /\ ~fx.threw
    /\ ~fx.requested => fx.returned = {}

\* C24 witness: among two stored submissions of the type of the new analysis
\* one is at 80% and is sent to the LLM, the other is at 75% and is not.
C24_Witness ==
  /\ fx.fn = "checkForDuplicates" /\ fx.pc = "done" /\ fx.requested
  /\ fx.newAnalysis = [type |-> "ACG", keywords |-> {"k1", "k2", "k3"}]
  /\ [cave |-> 1, type |-> "ACG", keywords |-> {"k1", "k2", "k3", "k4"}] \in cave_meta
  /\ [cave |-> 2, type |-> "ACG", keywords |-> {"k1", "k2"}] \in cave_meta
  /\ fx.potentialDuplicates = {1}

\* two caves own hashes of the type whose similarity meets the threshold
C25_Similar(a, b, type, threshold) ==
  \E i, j \in 1..Len(fx.allHashes) :
    /\ fx.allHashes[i].cave = a /\ fx.allHashes[j].cave = b
    /\ fx.allHashes[i].type = type /\ fx.allHashes[j].type = type
    /\ Meets(calculateSimilarity(fx.allHashes[i].hash, fx.allHashes[j].hash), threshold)

C25_Retained(pairs) == {<<pairs[k].id1, pairs[k].id2>> : k \in 1..Len(pairs)}

\* C25: a pair of caves is among the confirmed text (image) pairs of the
\* report exactly when the two caves own text (image) hashes whose similarity
\* meets the text (image) threshold, whichever of its hashes a cave owns.
C25_RetainedIffSimilar ==
  (fx.fn = "check" /\ fx.done /\ Len(fx.allHashes) >= 2) =>
    \A a, b \in 1..3 : a < b =>
      /\ <<a, b>> \in C25_Retained(fx.textPairs)
           <=> C25_Similar(a, b, "text", config.textThreshold)
      /\ <<a, b>> \in C25_Retained(fx.imagePairs)
           <=> C25_Similar(a, b, "image", config.imageThreshold)

C26_Lines(label) ==
  LET at == {k \in 1..Len(fx.report.sections) : fx.report.sections[k].label = label}
  IN  IF at = {} THEN <<>> ELSE fx.report.sections[CHOOSE k \in at : TRUE].lines

\* the confirmed pairs that lie inside the cluster of a line
C26_Inside(line, pairs) ==
  {k \in 1..Len(pairs) : \E i, j \in 1..Len(line.ids) :
      line.ids[i] = pairs[k].id1 /\ line.ids[j] = pairs[k].id2}

\* the line lists its ids in ascending order and, in descending order, one
\* score for each confirmed pair inside its cluster and no other
C26_LineOk(line, pairs) ==
  /\ \A i, j \in 1..Len(line.ids) : i < j => line.ids[i] < line.ids[j]
  /\ \A i, j \in 1..Len(line.scores) : i < j => line.scores[i] >= line.scores[j]
  /\ Len(line.scores) = Cardinality(C26_Inside(line, pairs))
  /\ \A v \in {line.scores[i] : i \in 1..Len(line.scores)} :
       Cardinality({i \in 1..Len(line.scores) : line.scores[i] = v})
         = Cardinality({k \in C26_Inside(line, pairs) : toFixed2(pairs[k].similarity) = v})

\* C26: the report lists the text clusters before the image clusters, the ids
\* of each cluster in ascending order, with each cluster the similarities of
\* exactly the confirmed pairs inside it in descending order, and a total
\* equal to the number of text clusters plus the number of image clusters.
C26_ReportLayout ==
  (fx.fn = "check" /\ fx.done /\ fx.report # NoReport) =>
    /\ \A i, j \in 1..Len(fx.report.sections) :
         i < j => fx.report.sections[i].label = "text" /\ fx.report.sections[j].label = "image"
    /\ \A k \in 1..Len(C26_Lines("text")) : C26_LineOk(C26_Lines("text")[k], fx.textPairs)
    /\ \A k \in 1..Len(C26_Lines("image")) : C26_LineOk(C26_Lines("image")[k], fx.imagePairs)
    /\ fx.report.totalClusters = Len(C26_Lines("text")) + Len(C26_Lines("image"))
    /\ (fx.textPairs # <<>>) = (C26_Lines("text") # <<>>)
    /\ (fx.imagePairs # <<>>) = (C26_Lines("image") # <<>>)

\* C26 witness: a report with a text cluster of three caves annotated with two
\* different similarities, followed by an image cluster; total 2.
C26_Witness ==
  /\ fx.fn = "check" /\ fx.done /\ Len(fx.report.sections) = 2
  /\ fx.report.totalClusters = 2
  /\ fx.report.sections[1].label = "text" /\ fx.report.sections[2].label = "image"
  /\ fx.report.sections[1].lines[1].ids = <<1, 2, 3>>
  /\ Len(fx.report.sections[1].lines[1].scores) = 2
  /\ fx.report.sections[1].lines[1].scores[1] > fx.report.sections[1].lines[1].scores[2]
  /\ fx.report.sections[2].lines[1].ids = <<1, 2>>

\* C27 as stated: the distance is symmetric and satisfies the triangle
\* inequality for all hex strings, of equal or different lengths.
C27_Metric ==
  (fx.fn = "hamming" /\ fx.done) =>
    /\ fx.ab = fx.ba
    /\ fx.ac <= fx.ab + fx.bc

\* C27 amended: the distance is symmetric for all hex strings, and satisfies
\* the triangle inequality whenever the middle string b is at least as long
\* as the shorter of a and c, in particular for strings of equal length.
C27_MetricOnCommonLength ==
  (fx.fn = "hamming" /\ fx.done) =>
    /\ fx.ab = fx.ba
    /\ Len(fx.b) >= Min(Len(fx.a), Len(fx.c)) => fx.ac <= fx.ab + fx.bc

\* C27 witness: three strings of different lengths, the middle one the
\* longest, at positive distances from each other.
C27_Witness ==
  /\ fx.fn = "hamming" /\ fx.done
  /\ Len(fx.a) = 1 /\ Len(fx.b) = 16 /\ Len(fx.c) = 2
  /\ fx.ab > 0 /\ fx.bc > 0 /\ fx.ac > 0 /\ fx.ac < fx.ab + fx.bc

\* the bits in which the first min(len) bits of two hex strings differ
C28_Distance(h1, h2) ==
  Cardinality({i \in 1..(4 * Min(Len(h1), Len(h2))) :
     HexBits(h1[((i - 1) \div 4) + 1])[((i - 1) % 4) + 1]
       # HexBits(h2[((i - 1) \div 4) + 1])[((i - 1) % 4) + 1]})

\* C28: the similarity is (1 - distance / (4 * max(len))) * 100, lies in
\* [0, 100], is 100 for a string with itself and for two empty strings, and
\* for two hashes of 16 digits meets a threshold T exactly when
\* 100 * (64 - distance) >= 64 * T (sim = <<n, d>> stands for n / d, the
\* threshold is in hundredths of a percent).
C28_SimilarityFormula ==
  (fx.fn = "hamming" /\ fx.done) =>
    LET distance == C28_Distance(fx.a, fx.b)
        bits     == 4 * Max(Len(fx.a), Len(fx.b))
    IN  /\ bits > 0 => fx.similarity[1] * bits = 100 * (bits - distance) * fx.similarity[2]
        /\ bits = 0 => fx.similarity[1] = 100 * fx.similarity[2]
        /\ fx.similarity[2] > 0
        /\ 0 <= fx.similarity[1] /\ fx.similarity[1] <= 100 * fx.similarity[2]
        /\ fx.same[1] = 100 * fx.same[2]
        /\ (Len(fx.a) = 16 /\ Len(fx.b) = 16) =>
             (fx.meets <=> 100 * 100 * (64 - distance) >= 64 * fx.threshold)

\* C28 witness: two hashes of 16 digits four bits apart meet the threshold
\* 93.75 exactly.
C28_Witness ==
  /\ fx.fn = "hamming" /\ fx.done
  /\ fx.a = Z /\ fx.b = Z4 /\ fx.threshold = 9375 /\ fx.meets
  /\ fx.ab = 4

\* C29: a submission that has a text and a media file whose pHash decode
\* fails, and that meets no other failure and no rejection, has the file
\* saved in the blob store and ends with a status other than delete.
C29_CorruptMediaSkipped ==
  \A p \in Running :
    (/\ Ended(p)
     /\ t[p].text # NoText
     /\ \E i \in 1..Len(t[p].media) : t[p].media[i] = Bad
     /\ t[p].threw \subseteq {"generatePHash"}
     /\ ~t[p].gateHit /\ t[p].dups = {} /\ t[p].decision # "reject")
    => /\ statusOf(p) \in {"active", "pending"}
       /\ \A i \in 1..Len(t[p].media) : t[p].media[i] = Bad => <<t[p].id, i>> \in blob

\* a committed row of the type is similar to one of the hashes
C30_Committed(type, hashes, threshold) ==
  \E h \in cave_hash : \E x \in hashes :
    h.type = type /\ Meets(calculateSimilarity(x, h.hash), threshold)

\* C30: each gate sees the hashes committed at the moment it reads and no
\* other: a text or image comparison that returns rejects the submission
\* exactly when a row of cave_hash, as it is at that step, is similar to it;
\* so two near-duplicates ingested together can both pass (the witness).
C30_GateSeesCommittedOnly ==
  [][\A p \in Sessions :
       /\ (/\ t[p].pc = "gateText" /\ t'[p].pc # "gateText"
           /\ config.enableSimilarity /\ t[p].text # NoText
           /\ t'[p].faults = t[p].faults)
          => (t'[p].gateHit <=> C30_Committed("text", {t[p].text}, config.textThreshold))
       /\ (/\ t[p].pc = "gateImage" /\ t'[p].pc # "gateImage"
           /\ t[p].canon # <<>>
           /\ t'[p].faults = t[p].faults)
          => (t'[p].gateHit <=>
                C30_Committed("image", {t[p].media[t[p].canon[k]] : k \in 1..Len(t[p].canon)},
                              config.imageThreshold))]_vars

\* C30 witness: two submissions with similar texts, ingested together, both
\* end active, and the hashes of both are in cave_hash.
C30_Witness ==
  \E p, q \in Sessions :
    /\ p # q /\ t[p].id # t[q].id
    /\ t[p].outcome = "ok" /\ t[q].outcome = "ok"
    /\ t[p].text # NoText /\ t[q].text # NoText
    /\ Meets(calculateSimilarity(t[p].text, t[q].text), config.textThreshold)
    /\ statusOf(p) = "active" /\ statusOf(q) = "active"
    /\ [cave |-> t[p].id, hash |-> t[p].text, type |-> "text"] \in cave_hash
    /\ [cave |-> t[q].id, hash |-> t[q].text, type |-> "text"] \in cave_hash
    /\ \A k \in 1..Len(t[p].canon) :
         [cave |-> t[p].id, hash |-> t[p].media[t[p].canon[k]], type |-> "image"] \in cave_hash
    /\ \A k \in 1..Len(t[q].canon) :
         [cave |-> t[q].id, hash |-> t[q].media[t[q].canon[k]], type |-> "image"] \in cave_hash

\* C31: the rows one ingest or one backfill of a cave is about to commit hold
\* at most one text hash per cave and no (cave, hash, type) twice, and in every
\* state each cave id owns at most one text hash.
C31_TextRows(rows, id) == {h \in rows : h.cave = id /\ h.type = "text"}

C31_OneTextHashPerCave ==
  /\ \A p \in Running : t[p].pc = "hashUpsert" =>
        Cardinality(C31_TextRows(hashRows(t[p]), t[p].id)) <= 1
  /\ batch.pc \in {"loop", "done", "failed"} =>
        LET rows == batch.hashesToInsert
        IN  /\ \A j, k \in 1..Len(rows) : j # k => rows[j] # rows[k]
            /\ \A id \in DOMAIN cave :
                  Cardinality({k \in 1..Len(rows) : rows[k].cave = id /\ rows[k].type = "text"}) <= 1
  /\ \A id \in DOMAIN cave : Cardinality(C31_TextRows(cave_hash, id)) <= 1

\* an ingest and a backfill have both committed rows, the backfill for a cave
\* with two image elements of the same pHash
C31_Witness ==
  /\ batch.pc = "done"
  /\ \E h \in cave_hash : h.cave = 3 /\ h.type = "image"
  /\ \E h \in cave_hash : h.cave = 3 /\ h.type = "text"
  /\ \E p \in Running : t[p].outcome = "ok" /\ \E h \in cave_hash : h.cave = t[p].id

\* C32: every cave_meta row written from an analysis has a rating in 0..100:
\* a rating below 0 is stored as 0, above 100 as 100, a missing one as 0.
C32_RatingClamped ==
  \A m \in cave_meta :
    /\ ~m.rating.nan
    /\ m.rating.n \in 0..100
    /\ fx.response.rating.kind = "number" =>
         m.rating.n = IF fx.response.rating.n < 0 THEN 0
                      ELSE IF fx.response.rating.n > 100 THEN 100
                      ELSE fx.response.rating.n
    /\ fx.response.rating.kind = "missing" => m.rating.n = 0

\* C33: no exception leaves analyze or checkForDuplicates: when the LLM
\* request fails or gives an empty or unparseable response analyze returns no
\* record and checkForDuplicates the empty list, and with neither text nor a
\* readable image analyze returns no record without calling the LLM.
C33_ModeratorsNeverThrow ==
  (fx.fn = "checkForDuplicates" /\ fx.pc = "done") =>
    /\ ~fx.raised
    /\ fx.outcome \in {"networkError", "empty", "unparseable"} =>
         fx.newAnalysis = NoNewAnalysis /\ fx.returned = {}
    /\ (~fx.text /\ \A k \in 1..Len(fx.images) : fx.images[k] # "readable") =>
         ~fx.called /\ fx.newAnalysis = NoNewAnalysis
    /\ fx.threw => fx.returned = {}

\* checkForDuplicates has returned for a submission with text after the
\* analysis request failed
C33_Witness ==
  /\ fx.fn = "checkForDuplicates" /\ fx.pc = "done" /\ fx.caller = "checkForDuplicates"
  /\ fx.text /\ fx.called /\ fx.outcome = "networkError"
  /\ fx.returned = {} /\ ~fx.raised

C34_WitnessCase(p) ==
  IF fx.reusableIds = {0, 3} THEN t[p].id = 3 /\ reusableIds = {0}
  ELSE IF fx.reusableIds = {0} THEN t[p].id = 5 /\ fx.existingIds = {1, 2, 4}
  ELSE fx.reusableIds = {} /\ t[p].id = 3 /\ fx.existingIds = {1, 2, 4}

C35_OnlyPendingLeaves ==
  [][ \A i \in DOMAIN cave :
        cave'[i] # cave[i] => /\ cave[i].status = "pending"
                              /\ cave'[i].status \in {"active", "delete"} ]_vars

\* C36: every id checkForDuplicates returns, which processNewCave reports in
\* its rejection whenever the list is not empty, is the id of one of the
\* candidates that were sent to the LLM.
C36_RejectionNamesCandidates ==
  (fx.fn = "checkForDuplicates" /\ fx.pc = "done") =>
    fx.returned \subseteq fx.potentialDuplicates

\* C37: the candidates built for the duplicate check of a submission, whose
\* cave_meta row was upserted before the check, do not include the submission.
C37_NotItsOwnCandidate ==
  (fx.fn = "checkForDuplicates" /\ fx.newId # 0) =>
    /\ fx.newId \notin fx.similarCaveIds
    /\ fx.newId \notin fx.potentialDuplicates

\* C38: after a successful ingest every file named by an element of the
\* persisted submission, inside a forward node or not, was saved to the blob
\* store.
C38_ElementsNameSavedFiles ==
  \A p \in Running : t[p].outcome = "ok" =>
    \A i \in 1..Len(t[p].files) : <<t[p].id, t[p].files[i]>> \in blob

\* C39: when cave.add finds no content to add, the reusable-id pool is what it
\* was before the command and no row was created.
C39_EmptyAddKeepsPool ==
  \A p \in Running : (fx.fn = "getNextCaveId" /\ t[p].outcome = "noContent") =>
    /\ reusableIds = fx.reusableIds
    /\ DOMAIN cave = fx.existingIds

\* C40: with the four keys of 16 bits of cave.check, two rows of one type and
\* of two caves whose hashes differ in at most 3 bits share a key and their
\* caves are a candidate pair; two rows of different types share no key.
C40_CloseHashesShareBand ==
  (fx.fn = "bands" /\ fx.done) =>
    \A i, j \in 1..Len(fx.allHashes) : i # j =>
      LET a == fx.allHashes[i]
          b == fx.allHashes[j]
          shared == \E m \in DOMAIN fx.items[i].keys, n \in DOMAIN fx.items[j].keys :
                      fx.items[i].keys[m] = fx.items[j].keys[n]
          pair == IF a.cave < b.cave THEN <<a.cave, b.cave>> ELSE <<b.cave, a.cave>>
      IN  /\ (a.type = b.type /\ a.cave # b.cave
                /\ calculateHammingDistance(a.hash, b.hash) <= 3)
               => /\ shared
                  /\ \E k \in 1..Len(fx.candidatePairs) : fx.candidatePairs[k] = pair
          /\ a.type # b.type => ~shared

\* two text rows alone whose hashes differ in 3 bits of three bands: caves 1
\* and 2 are the candidate pair
C40_Witness ==
  /\ fx.fn = "bands" /\ fx.done
  /\ Len(fx.allHashes) = 2
  /\ fx.allHashes[1].type = "text" /\ fx.allHashes[2].type = "text"
  /\ fx.allHashes[1].hash = Z /\ fx.allHashes[2].hash = flipped(Z, {0, 16, 32})
  /\ calculateHammingDistance(fx.allHashes[1].hash, fx.allHashes[2].hash) = 3
  /\ fx.candidatePairs = << <<1, 2>> >>

====
